---- MODULE Spec2Model ----
(***************************************************************************)
(* State-machine model of the rusub enumeration engine (scanner::run):     *)
(* the orchestrator, the per-host retry loop, the token-bucket limiter,    *)
(* the resolver pool, the sharded status store with its expiry sweeper and *)
(* the status-file load/save.                                              *)
(*                                                                         *)
(* Time is counted in minutes.  The refill tick of the limiter (1 s) is an *)
(* action of its own and is not tied to the minute clock.                  *)
(***************************************************************************)
EXTENDS Integers, Sequences, FiniteSets, TLC

(***************************************************************************)
(* Bounds of the model                                                     *)
(***************************************************************************)
\* largest positive --retry value explored
MaxRetry == 1
\* cap on the attempts of a host task that retries forever (retry = -1)
MaxAttempts == 2
\* largest rate (permits per refill) explored
MaxRate == 1
\* largest concurrency explored
MaxConcurrency == 2
\* how many times the minute clock may jump during a run
MaxAdvance == 1
\* largest --predict-topn explored
MaxTopN == 1
\* number of tasks that call the StatusDb concurrently, next to its sweeper
MaxDbProcs == 2

(***************************************************************************)
(* Program constants                                                       *)
(***************************************************************************)
\* StatusDb.expiration, minutes
Expiration == 5
\* should_disable: total >= 20 branch
DisableMinTotal == 20
\* should_disable: fail >= 10 && ok == 0 branch
DisableMinFail == 10
\* --resolver-cooldown default (60 s), minutes
CooldownMin == 1

(***************************************************************************)
(* Universe of values                                                      *)
(***************************************************************************)
Labels == {"a", "b"}
Apex == "x"
Resolvers == {"r1"}
\* the resolver lists explored: none, one endpoint, two endpoints
ResolverLists == {{}, Resolvers, Resolvers \cup {"r2"}}
NoResolver == "none"

\* host = label + "." + domain
MakeHost(sub, domain) == <<sub, domain>>
Hosts == {MakeHost(l, Apex) : l \in Labels}

\* a word of two labels, and its first label (`split('.').next()`)
DottedWord == "svc.a"
FirstLabel(w) == IF w = DottedWord THEN "svc" ELSE w
\* a label of 33 characters
LongLabel == "long"
\* a word of 64 octets, one more than a DNS label may have
InvalidWord == "toolong"
\* the length of a label in characters
LabelLen(l) ==
    IF l \in {"svc", "ops", "www"} THEN 3
    ELSE IF l = "edge" THEN 4
    ELSE IF l = "db" THEN 2
    ELSE IF l = LongLabel THEN 33
    ELSE IF l = InvalidWord THEN 64
    ELSE 1
\* every host a run can scan: the words of the list and the mined labels
AllHosts ==
    Hosts \cup {MakeHost(DottedWord, Apex), MakeHost(FirstLabel(DottedWord), Apex),
                MakeHost(InvalidWord, Apex)}

\* discovery::basic_seeds, one entry of it, and the common service dictionary
\* of dynamic_extend, one entry of four characters and one of two
basic_seeds == {"www"}
CommonSeeds == {"edge", "db"}

\* first labels counted whatever their length
MinedAnyLength(d) == {FirstLabel(d[i][1]) : i \in 1..Len(d)}
\* the first labels of the discovered hosts that dynamic_extend counts
Mined(d) ==
    {l \in {FirstLabel(d[i][1]) : i \in 1..Len(d)} : LabelLen(l) >= 3 /\ LabelLen(l) <= 32}
Freq(d, l) == Cardinality({i \in 1..Len(d) : FirstLabel(d[i][1]) = l})
\* the cuts `take(top_n)` can make in the ranking by frequency: the order of
\* labels of equal frequency is that of the hash map
TopCuts(d, n) ==
    {T \in SUBSET Mined(d) :
        /\ Cardinality(T) = IF Cardinality(Mined(d)) < n THEN Cardinality(Mined(d)) ELSE n
        /\ \A x \in T, y \in Mined(d) \ T : Freq(d, x) >= Freq(d, y)}
\* discovery::dynamic_extend: the label sets it can return
dynamic_extend(d, base, n) == {(T \ base) \cup (CommonSeeds \ base) : T \in TopCuts(d, n)}

\* RawRecord {rtype, data}
RecA(ip) == [rtype |-> "A", data |-> ip]
RecCname == [rtype |-> "CNAME", data |-> "c"]
\* the record lists a DnsAnswer may carry (as sets: the code sorts and dedups)
RecordSets == {{}, {RecA("w")}, {RecA("x")}, {RecA("w"), RecA("x")}, {RecCname}}
\* rcode strings produced by udp_query_full ("NoError" stands for every code the
\* rcode match sends to its `_` arm)
RCodes == {"NoError", "NXDomain", "ServFail", "Refused", "TIMEOUT"}

\* the wall clock when the run starts, and one jump of the clock
StartTime == Expiration + 1
TimeStep == Expiration + 1

VARIABLES
    cfg,          \* Options and environment of the run (never changes)
    phase,        \* position of scanner::run: "load", "spawn", "round", "done"
    round_plan,   \* hosts of the predictor round, once it is planned
    spawned,      \* number of host tasks spawned so far
    sem,          \* free permits of the concurrency semaphore
    pc,           \* position of each host task
    attempt,      \* local `attempt` of each host task
    success,      \* local `success` of each host task
    chosen,       \* resolver picked for the attempt in flight
    hist,         \* history: the outcome of each attempt of the task, in order
                  \* (a task skipped at its start records "Skipped")
    metrics,      \* Metrics counters
    permits,      \* available permits of the limiter semaphore
    rl_rate,      \* RateLimiter.rate
    db,           \* StatusDb: host -> Item (domain = stored hosts)
    dblen,        \* StatusDb.length
    pool,         \* ResolverPool: resolver -> ResolverInner
    written,      \* per host, the ScanResults handed to the writers
    discovered,   \* the discovered list
    writers_closed,
    saved,        \* content of the status file written at finalization
    now,          \* wall clock, minutes
    sentInWindow, \* `sent` increments since the last refill tick
    db2,          \* a second StatusDb (map and length), built to load a file into
    bg,           \* the background tasks: their options, their position and who
                  \* wrote each of their files last
    dbop,         \* the StatusDb call each caller is in, and where it stands
    poolop,       \* the ResolverPool calls in progress: the holder of the map
                  \* lock (rf) and the holder of the order lock (sel)
    ret           \* the latest call made directly on the ResolverPool or on the
                  \* StatusDb, with its result

vars == <<cfg, phase, round_plan, spawned, sem, pc, attempt, success, chosen, hist, metrics,
          permits, rl_rate, db, dblen, pool, written, discovered,
          writers_closed, saved, now, sentInWindow, ret, dbop, bg, db2, poolop>>

(***************************************************************************)
(* Pure helpers                                                            *)
(***************************************************************************)
Max(a, b) == IF a >= b THEN a ELSE b

\* a subset test without the two emptiness checks
is_wildcard_subset_only(answers, wild_ips) == \A a \in answers : a \in wild_ips
\* wildcard::is_wildcard
is_wildcard(answers, wild_ips) ==
    IF wild_ips = {} THEN FALSE
    ELSE IF answers = {} THEN FALSE
    ELSE \A a \in answers : a \in wild_ips

\* the A/AAAA filter of the Ok branch
IpsOf(records) == {r.data : r \in {x \in records : x.rtype \in {"A", "AAAA"}}}

\* state_to_string / string_to_state
state_to_string(s) ==
    IF s = "Ok" THEN "Ok" ELSE IF s = "WildFiltered" THEN "WildFiltered" ELSE "Failed"
\* a parse that knows the Ok state only
string_to_state_ok_only(s) == IF s = "Ok" THEN "Ok" ELSE "Failed"
string_to_state(s) ==
    IF s = "Ok" THEN "Ok" ELSE IF s = "WildFiltered" THEN "WildFiltered" ELSE "Failed"

\* Item built by a host task
MakeItem(host, dns, retry, state) ==
    [domain |-> host, dns |-> dns, time |-> now, retry |-> retry, state |-> state]

\* StatusDb::add / StatusDb::set on (map, length)
DbInsert(m, h, item) == [k \in (DOMAIN m) \cup {h} |-> IF k = h THEN item ELSE m[k]]
DbAddLenAlways(m, len, h) == len + 1
DbAddLen(m, len, h) == IF h \in DOMAIN m THEN len ELSE len + 1

\* StatusDb::del on (map, length)
DbRemove(m, h) == [k \in (DOMAIN m) \ {h} |-> m[k]]
DbDelLen(m, len, h) == IF h \in DOMAIN m THEN len - 1 ELSE len

\* StatusDb::get
DbHas(h) == h \in DOMAIN db
\* a cache check that takes only Ok for final
IsTerminalOnlyOk(state) == state = "Ok"
\* the states the cache check at the start of a host task treats as final
IsTerminal(state) == state = "Ok" \/ state = "WildFiltered"

\* ResolverInner::should_disable
should_disable_ratio_only(ok, fail) ==
    LET total == ok + fail IN
    total >= DisableMinTotal /\ fail * 10 > total * 8

should_disable(ok, fail) ==
    LET total == ok + fail IN
    IF total >= DisableMinTotal THEN fail * 10 > total * 8
    ELSE fail >= DisableMinFail /\ ok = 0

\* ResolverPool::report_fail
report_fail(p, r) ==
    LET f == p[r].fail + 1 IN
    IF should_disable(p[r].ok, f)
    THEN [p EXCEPT ![r] = [@ EXCEPT !.fail = f, !.disabled = TRUE,
                                     !.disabled_at = now, !.cb = @ + 1]]
    ELSE [p EXCEPT ![r].fail = f]

\* ResolverPool::report_ok
report_ok(p, r) == [p EXCEPT ![r].ok = @ + 1]

maybe_reenable_keep_counters(p) ==
    [r \in DOMAIN p |->
        IF p[r].disabled /\ p[r].disabled_at >= 0 /\ now - p[r].disabled_at >= CooldownMin
        THEN [p[r] EXCEPT !.disabled = FALSE, !.disabled_at = -1]
        ELSE p[r]]

\* ResolverInner::maybe_reenable applied to every endpoint
maybe_reenable(p) ==
    [r \in DOMAIN p |->
        IF p[r].disabled /\ p[r].disabled_at >= 0 /\ now - p[r].disabled_at >= CooldownMin
        THEN [p[r] EXCEPT !.ok = 0, !.fail = 0, !.disabled = FALSE, !.disabled_at = -1]
        ELSE p[r]]

ActiveAll(p) == DOMAIN p

Active(p) == {r \in DOMAIN p : ~p[r].disabled}

Bump(m, field) == [m EXCEPT ![field] = @ + 1]

\* a while condition without the retry-forever case
LoopCondNoForever(a) ==
    \/ a <= cfg.retry
    \/ (cfg.retry = 0 /\ a < 2)

\* the while condition of the retry loop
LoopCond(a) ==
    \/ cfg.retry < 0
    \/ a <= cfg.retry
    \/ (cfg.retry = 0 /\ a < 2)

\* a retry check that gives up one attempt early
RetryBreakEarly(a) ==
    IF cfg.retry >= 0 /\ a >= cfg.retry
    THEN ~(cfg.retry = 0 /\ a = 1)
    ELSE FALSE

\* the check that ends a loop iteration: TRUE = break
RetryBreak(a) ==
    IF cfg.retry >= 0 /\ a > cfg.retry
    THEN ~(cfg.retry = 0 /\ a = 1)
    ELSE FALSE

show_all == ~cfg.not_print /\ ~cfg.only_alive

\* the cross join of the plan: task i scans plan[i]
Plan == [i \in 1..Len(cfg.words) |-> MakeHost(cfg.words[i], Apex)]
BaseTasks == 1..Len(cfg.words)
\* the tasks of the base pass and, once planned, of the predictor round
Tasks == DOMAIN pc
HostOf(t) == IF t <= Len(Plan) THEN Plan[t] ELSE round_plan[t - Len(Plan)]

\* word_set: the words of the list and, with --predict, the seeds the prologue
\* appends to it
word_set ==
    {cfg.words[i] : i \in 1..Len(cfg.words)}
    \cup (IF cfg.predict THEN basic_seeds \cup CommonSeeds ELSE {})
\* new_seeds of a predictor round: what dynamic_extend returns, less the words
\* already scanned
NewSeeds == {S \ word_set : S \in dynamic_extend(discovered, basic_seeds, cfg.predict_topn)}
\* a set of labels as a list, in the order of `sort`
RECURSIVE Sorted(_)
Sorted(S) == IF S = {} THEN <<>> ELSE LET x == CHOOSE y \in S : TRUE IN <<x>> \o Sorted(S \ {x})
\* the drain of the base pass is over and a predictor round has seeds to scan
RoundDue ==
    /\ cfg.predict
    /\ phase = "spawn"
    /\ discovered # <<>>
    /\ \E S \in NewSeeds : S # {}

(***************************************************************************)
(* Initial state: the Options, the environment and the state built by the  *)
(* prologue of scanner::run                                                *)
(***************************************************************************)
\* a persisted entry whose timestamp is older than the expiry, or fresh
PersistItems ==
    {[domain |-> MakeHost("a", Apex), dns |-> "r1", retry |-> 1, state |-> s, ts_sec |-> ts] :
        s \in {"Ok", "WildFiltered", "Failed"}, ts \in {StartTime - TimeStep, StartTime}}
\* status_file: some = --status-file given; items = the entries of that file
\* json = the content parses as a JSON list of persisted entries
NoStatusFile == [some |-> FALSE, json |-> TRUE, items |-> {}]
StatusFileOf(items) == [some |-> TRUE, json |-> TRUE, items |-> items]
StatusFiles ==
    {NoStatusFile} \cup {StatusFileOf({})}
    \cup {StatusFileOf({p}) : p \in PersistItems}

\* the word lists explored: one label, a repeated label, two labels
WordLists == {<<"a">>, <<"a", "a">>, <<"a", "b">>}
\* a word list whose word has a first label that is not a word itself
DottedWordLists == {<<DottedWord>>}
\* a trimmed line of a word list file that is a comment
CommentLine == "#c"
\* read_wordlist: the trimmed lines of the file that are neither empty nor comments
read_wordlist(lines) == SelectSeq(lines, LAMBDA l : l # "" /\ l # CommentLine)
\* word list files with a word that is not a DNS label
WordFiles == {<<CommentLine, InvalidWord>>, <<"a", "", InvalidWord>>}

\* what the `match timeout(..)` of an attempt can see.  "elapsed": the timeout
\* around the query fired (Err(Elapsed)); "failed": the blocking worker or the
\* query returned an error; both take the `_` arm.  A resolver that does not
\* answer yields "elapsed", or an answer with rcode "TIMEOUT" when the read of
\* the socket gives up first.
DnsOutcomes ==
    {[kind |-> k, rcode |-> "-", records |-> {}] : k \in {"elapsed", "failed"}}
    \cup {[kind |-> "ans", rcode |-> rc, records |-> rs] : rc \in RCodes, rs \in RecordSets}
\* what the `match timeout(lookup_host)` of the fallback path can see
SysOutcomes ==
    {[kind |-> "sysok", rcode |-> "-", records |-> {}],
     [kind |-> "sysfail", rcode |-> "-", records |-> {}]}

\* the resolvers of a run: any behaviour, or resolvers that always answer and
\* never with an error code
Healthy == {o \in DnsOutcomes : o.kind = "ans" /\ o.rcode \in {"NoError", "NXDomain"}}
Upstreams == {DnsOutcomes, Healthy}

Configs ==
    [retry : -1..MaxRetry,
     not_print : BOOLEAN,
     only_alive : BOOLEAN,
     rate : 0..MaxRate,
     concurrency : 1..MaxConcurrency,
     words : WordLists \cup DottedWordLists,
     predict : BOOLEAN,
     predict_topn : 1..MaxTopN,
     wild_ips : {{}, {"w"}},
     status_file : StatusFiles,
     upstream : Upstreams,
     resolvers : ResolverLists]

ZeroMetrics ==
    [sent |-> 0, ok |-> 0, filtered |-> 0, failed |-> 0, fallback |-> 0, skipped |-> 0,
     nxdomain |-> 0, servfail |-> 0, refused |-> 0, timeouts |-> 0]

NoOutcome == [rcode |-> "-", cls |-> "None"]
\* no call made yet.  For a call on the pool: addr = the endpoint passed or
\* returned, (active, total) = the pair counts returns, reports = the reports made
\* so far.  For a call on the StatusDb: active = 1 when the key was stored before
\* the call, total = the value length returns.
NoCall == [op |-> "none", addr |-> NoResolver, active |-> 0, total |-> 0, reports |-> 0]
\* the callers of the StatusDb: its sweeper (0) and the tasks
DbProcs == 0..MaxDbProcs
NoKey == MakeHost("-", Apex)
\* a caller that is in no call
DbIdle == [pc |-> "idle", op |-> "none", shard |-> 0, key |-> NoKey, item |-> NoOutcome,
           keys |-> {}]
\* no call on the ResolverPool is in progress
PoolIdle == [rf |-> [pc |-> "idle", addr |-> NoResolver, ok |-> 0, fail |-> 0],
             sel |-> [pc |-> "idle", op |-> "none", rest |-> {}, cur |-> NoResolver]]
\* the outcome of the latest attempt of task t
Last(t) == IF hist[t] = <<>> THEN NoOutcome ELSE hist[t][Len(hist[t])]

\* everything but the counters of the pool
InitBut(C) ==
    /\ cfg \in C
    /\ phase = IF cfg.status_file.some THEN "load" ELSE "spawn"
    /\ spawned = 0
    /\ sem = cfg.concurrency
    /\ round_plan = <<>>
    /\ pc = [t \in BaseTasks |-> "unspawned"]
    /\ attempt = [t \in BaseTasks |-> 0]
    /\ success = [t \in BaseTasks |-> FALSE]
    /\ chosen = [t \in BaseTasks |-> NoResolver]
    /\ hist = [t \in BaseTasks |-> <<>>]
    /\ metrics = ZeroMetrics
    /\ permits = 0
    /\ rl_rate = Max(cfg.rate, 0)
    /\ db = [k \in {} |-> NoOutcome]
    /\ dblen = 0
    /\ written = [h \in AllHosts |-> [full |-> 0, empty |-> 0]]
    /\ discovered = <<>>
    /\ writers_closed = FALSE
    /\ saved = NoStatusFile
    /\ now = StartTime
    /\ sentInWindow = 0
    /\ ret = NoCall
    /\ db2 = [items |-> <<>>, length |-> 0]
    /\ dbop = [p \in DbProcs |-> DbIdle]
    /\ poolop = PoolIdle

\* ResolverInner::new
NewInner == [ok |-> 0, fail |-> 0, disabled |-> FALSE, disabled_at |-> -1, cb |-> 0]

\* the defaults of --adaptive-min-rate, --adaptive-error-threshold (percent),
\* --adaptive-dec-factor (percent) and --adaptive-inc-factor (percent)
DefaultMinRate == 1000
ErrThrPct == 15
DecPct == 70
IncPct == 105
\* the options of the background tasks at their defaults: no adaptive control, no
\* periodic flush, no resolver stats file, no progress JSON file.  An interval
\* of 0 turns a periodic task off.
NoBackground ==
    [adaptive_rate |-> FALSE, adaptive_min_rate |-> DefaultMinRate, adaptive_max_rate |-> 0,
     err_pct |-> ErrThrPct, dec_pct |-> DecPct, inc_pct |-> IncPct,
     flush_interval |-> 0, stats_file |-> FALSE, stats_interval |-> 0,
     json_file |-> FALSE, json_interval |-> 0]
\* the background tasks as the prologue spawns them
BgStart(o) ==
    [opt |-> o,
     last_sent |-> 0,
     last_err |-> 0,
     adaptive |-> IF o.adaptive_rate THEN "running" ELSE "off",
     flush |-> IF cfg.status_file.some /\ o.flush_interval > 0 THEN "running" ELSE "off",
     stats |-> IF o.stats_file /\ o.stats_interval > 0 THEN "running" ELSE "off",
     json |-> IF o.json_file /\ o.json_interval > 0 THEN "running" ELSE "off",
     status_by |-> "none",
     stats_by |-> "none",
     json_by |-> "none"]

InitWith(C) ==
    /\ InitBut(C)
    /\ pool = [r \in cfg.resolvers |-> NewInner]
    /\ bg = BgStart(NoBackground)

\* the runs of one host task against resolvers of any behaviour
OneHost ==
    {c \in Configs :
        /\ c.words \in WordLists
        /\ Len(c.words) = 1
        /\ ~c.predict
        /\ c.predict_topn = 1
        /\ c.concurrency = 1
        /\ c.upstream = DnsOutcomes
        /\ c.resolvers = Resolvers}
\* no status file, or one that holds a terminal entry: an Ok entry older than the
\* expiry, or a fresh WildFiltered entry
CoreStatusFiles ==
    {NoStatusFile}
    \cup {StatusFileOf({p}) :
             p \in {q \in PersistItems :
                       \/ q.state = "Ok" /\ q.ts_sec < StartTime
                       \/ q.state = "WildFiltered" /\ q.ts_sec = StartTime}}
\* one host task, printing to the terminal, with a wildcard address detected
Init ==
    InitWith({c \in OneHost :
                ~c.not_print /\ c.wild_ips # {} /\ c.status_file \in CoreStatusFiles})

(***************************************************************************)
(* Background tasks                                                        *)
(***************************************************************************)
\* RateLimiter::spawn_refill, one tick
RefillTick ==
    /\ phase # "done"
    /\ LET to_add == Max(rl_rate - permits, 0) IN
       permits' = permits + to_add
    /\ sentInWindow' = 0
    /\ UNCHANGED <<poolop, db2, bg, dbop, round_plan, ret, cfg, phase, spawned, sem, pc, attempt, success, chosen, hist, metrics,
                   rl_rate, db, dblen, pool, written, discovered, writers_closed, saved,
                   now>>

\* StatusDb::cleanup, run by the sweeper at a tick of its interval
Cleanup ==
    /\ phase # "done"
    /\ LET threshold == Max(now - Expiration, 0)
           keys == {k \in DOMAIN db : db[k].time < threshold}
       IN /\ db' = [k \in (DOMAIN db) \ keys |-> db[k]]
          /\ dblen' = dblen - Cardinality(keys)
    /\ UNCHANGED <<poolop, db2, bg, dbop, round_plan, ret, cfg, phase, spawned, sem, pc, attempt, success, chosen, hist, metrics,
                   permits, rl_rate, pool, written, discovered, writers_closed, saved,
                   now, sentInWindow>>

\* the wall clock moves on
Advance ==
    /\ phase # "done"
    /\ now < StartTime + MaxAdvance * TimeStep
    /\ now' = now + TimeStep
    /\ UNCHANGED <<poolop, db2, bg, dbop, round_plan, ret, cfg, phase, spawned, sem, pc, attempt, success, chosen, hist, metrics,
                   permits, rl_rate, db, dblen, pool, written, discovered, writers_closed,
                   saved, sentInWindow>>

(***************************************************************************)
(* scanner::run, the orchestrator                                          *)
(***************************************************************************)
\* load_from_file: every persisted entry is added with its own timestamp
LoadedItem(p) ==
    [domain |-> p.domain, dns |-> p.dns, time |-> p.ts_sec, retry |-> p.retry,
     state |-> string_to_state(p.state)]

\* a parse that keeps the entries it can read
ParseListLenient(f) == f.items
\* what serde_json::from_slice yields: the list, or an empty list on a parse error
ParseList(f) == IF f.json THEN f.items ELSE {}
\* load_from_file on (map, length): the map and the length after the call, and
\* the count n it returns
load_from_file(m, len, f) ==
    LET list == IF f.some THEN ParseList(f) ELSE {}
        doms == {p.domain : p \in list}
    IN [items |-> [k \in (DOMAIN m) \cup doms |->
                      IF k \in doms THEN LoadedItem(CHOOSE p \in list : p.domain = k)
                      ELSE m[k]],
        length |-> len + Cardinality(doms \ DOMAIN m),
        n |-> Cardinality(list)]

Load ==
    /\ phase = "load"
    /\ LET loaded == load_from_file(db, dblen, cfg.status_file)
       IN /\ db' = loaded.items
          /\ dblen' = loaded.length
    /\ phase' = "spawn"
    /\ UNCHANGED <<poolop, db2, bg, dbop, round_plan, ret, cfg, spawned, sem, pc, attempt, success, chosen, hist, metrics,
                   permits, rl_rate, pool, written, discovered, writers_closed, saved,
                   now, sentInWindow>>

\* a planning loop that spawns without waiting for a permit
SpawnNoPermit ==
    /\ phase \in {"spawn", "round"}
    /\ spawned < Len(Plan) + Len(round_plan)
    /\ sem' = sem - 1
    /\ spawned' = spawned + 1
    /\ pc' = [pc EXCEPT ![spawned + 1] = "start"]
    /\ UNCHANGED <<poolop, db2, bg, dbop, round_plan, ret, cfg, phase, attempt, success, chosen, hist, metrics, permits, rl_rate,
                   db, dblen, pool, written, discovered, writers_closed, saved, now, sentInWindow>>

\* one iteration of the planning loop: take a concurrency permit, spawn the task
Spawn ==
    /\ phase \in {"spawn", "round"}
    /\ spawned < Len(Plan) + Len(round_plan)
    /\ sem > 0
    /\ sem' = sem - 1
    /\ spawned' = spawned + 1
    /\ pc' = [pc EXCEPT ![spawned + 1] = "start"]
    /\ UNCHANGED <<poolop, db2, bg, dbop, round_plan, ret, cfg, phase, attempt, success, chosen, hist, metrics, permits, rl_rate,
                   db, dblen, pool, written, discovered, writers_closed, saved, now, sentInWindow>>

\* the base pass is drained: plan the predictor round from a snapshot of the
\* discovered hosts; its tasks are spawned by the same planning loop
StartRound ==
    /\ RoundDue
    /\ spawned = Len(Plan)
    /\ \A t \in Tasks : pc[t] = "done"
    /\ \E S \in NewSeeds :
          /\ S # {}
          /\ round_plan' = [i \in 1..Cardinality(S) |-> MakeHost(Sorted(S)[i], Apex)]
    /\ LET all == 1..(Len(Plan) + Len(round_plan')) IN
          /\ pc' = [t \in all |-> IF t \in Tasks THEN pc[t] ELSE "unspawned"]
          /\ attempt' = [t \in all |-> IF t \in Tasks THEN attempt[t] ELSE 0]
          /\ success' = [t \in all |-> IF t \in Tasks THEN success[t] ELSE FALSE]
          /\ chosen' = [t \in all |-> IF t \in Tasks THEN chosen[t] ELSE NoResolver]
          /\ hist' = [t \in all |-> IF t \in Tasks THEN hist[t] ELSE <<>>]
    /\ phase' = "round"
    /\ UNCHANGED <<poolop, db2, bg, dbop, ret, cfg, spawned, sem, metrics, permits, rl_rate, db, dblen, pool,
                   written, discovered, writers_closed, saved, now, sentInWindow>>

\* save_to_file
Snapshot(m) ==
    {[domain |-> m[k].domain, dns |-> m[k].dns, retry |-> m[k].retry,
      state |-> state_to_string(m[k].state), ts_sec |-> m[k].time] : k \in DOMAIN m}
\* save_to_file: the file written from the snapshot of the store
save_to_file(m) == StatusFileOf(Snapshot(m))

\* a finalization that does not wait for the host tasks
FinalizeUndrained ==
    /\ phase \in {"spawn", "round"}
    /\ spawned = Len(Plan) + Len(round_plan)
    /\ ~RoundDue
    /\ writers_closed' = TRUE
    /\ saved' = IF cfg.status_file.some THEN save_to_file(db) ELSE saved
    /\ bg' = [bg EXCEPT !.status_by = IF cfg.status_file.some THEN "final" ELSE @,
                         !.stats_by = IF bg.opt.stats_file THEN "final" ELSE @,
                         !.json_by = IF bg.opt.json_file THEN "final" ELSE @,
                         !.flush = IF @ = "running" THEN "aborted" ELSE @,
                         !.stats = IF @ = "running" THEN "aborted" ELSE @]
    /\ phase' = "done"
    /\ UNCHANGED <<poolop, db2, dbop, round_plan, ret, cfg, spawned, sem, pc, attempt, success, chosen, hist, metrics,
                   permits, rl_rate, db, dblen, pool, written, discovered, now, sentInWindow>>
\* drain done: close the writers, write the final snapshots (status file,
\* resolver stats, progress JSON), abort the periodic flush and stats tasks
Finalize ==
    /\ phase \in {"spawn", "round"}
    /\ spawned = Len(Plan) + Len(round_plan)
    /\ \A t \in Tasks : pc[t] = "done"
    /\ ~RoundDue
    /\ writers_closed' = TRUE
    /\ saved' = IF cfg.status_file.some THEN save_to_file(db) ELSE saved
    /\ bg' = [bg EXCEPT !.status_by = IF cfg.status_file.some THEN "final" ELSE @,
                         !.stats_by = IF bg.opt.stats_file THEN "final" ELSE @,
                         !.json_by = IF bg.opt.json_file THEN "final" ELSE @,
                         !.flush = IF @ = "running" THEN "aborted" ELSE @,
                         !.stats = IF @ = "running" THEN "aborted" ELSE @]
    /\ phase' = "done"
    /\ UNCHANGED <<poolop, db2, dbop, round_plan, ret, cfg, spawned, sem, pc, attempt, success, chosen, hist, metrics,
                   permits, rl_rate, db, dblen, pool, written, discovered, now, sentInWindow>>

(***************************************************************************)
(* The host task                                                           *)
(***************************************************************************)
\* a rcode match that penalizes NXDomain too
PenalizedAlsoNXDomain(rcode) == rcode \in {"NXDomain", "ServFail", "Refused", "TIMEOUT"}
\* the rcodes that set `penalized`
Penalized(rcode) == rcode \in {"ServFail", "Refused", "TIMEOUT"}

\* the counter bumped by the rcode match
CountRcode(m, rcode) ==
    IF rcode = "NXDomain" THEN Bump(m, "nxdomain")
    ELSE IF rcode = "ServFail" THEN Bump(m, "servfail")
    ELSE IF rcode = "Refused" THEN Bump(m, "refused")
    ELSE IF rcode = "TIMEOUT" THEN Bump(m, "timeouts")
    ELSE m

\* which branch of the attempt body an outcome takes
Classify(o) ==
    IF o.kind = "elapsed" THEN "Elapsed"
    ELSE IF o.kind = "failed" THEN "QueryErr"
    ELSE IF o.kind = "sysok" THEN "SysOk"
    ELSE IF o.kind = "sysfail" THEN "SysFail"
    ELSE IF o.rcode = "NXDomain" THEN "NXDomain"
    ELSE IF o.records # {}
         THEN IF ~is_wildcard(IpsOf(o.records), cfg.wild_ips) THEN "Ok" ELSE "Filtered"
    ELSE "Empty"

\* the outcomes after which the loop body falls through to the retry check
Transient == {"Empty", "Elapsed", "QueryErr", "SysFail"}

\* the cache check at the start of the task
TaskStart(t) ==
    /\ pc[t] = "start"
    /\ IF DbHas(HostOf(t)) /\ IsTerminal(db[HostOf(t)].state)
       THEN /\ metrics' = Bump(metrics, "skipped")
            /\ pc' = [pc EXCEPT ![t] = "done"]
            /\ hist' = [hist EXCEPT ![t] = Append(@, [rcode |-> "-", cls |-> "Skipped"])]
            /\ sem' = sem + 1
       ELSE /\ pc' = [pc EXCEPT ![t] = "loop"]
            /\ UNCHANGED <<metrics, hist, sem>>
    /\ UNCHANGED <<poolop, db2, bg, dbop, round_plan, ret, cfg, phase, spawned, attempt, success, chosen, permits, rl_rate, db,
                   dblen, pool, written, discovered, writers_closed, saved, now, sentInWindow>>

\* the limiter permit `_rp` of the attempt goes out of scope at the end of the loop
\* body: OwnedSemaphorePermit::drop hands it back to the semaphore
PermitsAfterAttempt(n) == n + 1

\* where the task goes after an attempt that did not break
AfterTransient(a) == IF RetryBreak(a) THEN "finish" ELSE "loop"

\* a task of the predictor round
InRound(t) == t > Len(Plan)

\* loop head: test the while condition, take a limiter permit, count the query as sent
\* and pick a resolver
TaskAcquire(t) ==
    /\ pc[t] = "loop"
    /\ IF LoopCond(attempt[t])
       THEN /\ cfg.retry < 0 => attempt[t] < MaxAttempts
            /\ permits > 0
            /\ attempt' = [attempt EXCEPT ![t] = @ + 1]
            /\ sentInWindow' = sentInWindow + 1
            /\ pool' = maybe_reenable(pool)
            /\ IF Active(pool') # {}
               THEN /\ \E r \in Active(pool') : chosen' = [chosen EXCEPT ![t] = r]
                    /\ metrics' = Bump(metrics, "sent")
                    /\ permits' = permits - 1
                    /\ pc' = [pc EXCEPT ![t] = "wait"]
                    /\ UNCHANGED hist
               ELSE IF ~InRound(t)
               THEN /\ chosen' = [chosen EXCEPT ![t] = NoResolver]
                    /\ metrics' = Bump(Bump(metrics, "sent"), "fallback")
                    /\ permits' = permits - 1
                    /\ pc' = [pc EXCEPT ![t] = "wait"]
                    /\ UNCHANGED hist
               ELSE \* the `if let Some(resolver)` of the round has no else branch:
                    \* the iteration ends at the retry check
                    /\ chosen' = [chosen EXCEPT ![t] = NoResolver]
                    /\ metrics' = Bump(metrics, "sent")
                    /\ permits' = PermitsAfterAttempt(permits - 1)
                    /\ hist' = [hist EXCEPT ![t] = Append(@, [rcode |-> "-", cls |-> "NoResolver"])]
                    /\ pc' = [pc EXCEPT ![t] = AfterTransient(attempt'[t])]
       ELSE /\ pc' = [pc EXCEPT ![t] = "finish"]
            /\ UNCHANGED <<attempt, permits, sentInWindow, pool, chosen, metrics, hist>>
    /\ UNCHANGED <<poolop, db2, bg, dbop, round_plan, ret, cfg, phase, spawned, sem, success, rl_rate, db, dblen, written,
                   discovered, writers_closed, saved, now>>

\* an empty-answer branch that penalizes whatever the rcode match did
EmptyPenaltyAlways(p, r, penalized) == report_fail(p, r)
\* the empty-answer branch: penalize only if the rcode match has not
EmptyPenalty(p, r, penalized) == IF ~penalized THEN report_fail(p, r) ELSE p

\* the rest of the loop body, from the answer of the query to the retry check,
\* as written in the base pass (in_round = FALSE) and in the predictor round
\* (in_round = TRUE): the round's copy has no store of Failed in its
\* empty-answer branch
AnswerEffectOf(t, o, in_round) ==
    LET h == HostOf(t)
        r == chosen[t]
        a == attempt[t]
        cls == Classify(o)
        pen == o.kind = "ans" /\ Penalized(o.rcode)
        m1 == IF o.kind = "ans" THEN CountRcode(metrics, o.rcode) ELSE metrics
        p1 == IF pen \/ o.kind \in {"elapsed", "failed"} THEN report_fail(pool, r) ELSE pool
    IN
    /\ hist' = [hist EXCEPT ![t] = Append(@, [rcode |-> o.rcode, cls |-> cls])]
    /\ permits' = PermitsAfterAttempt(permits)
    /\ CASE cls = "NXDomain" ->
              /\ metrics' = m1
              /\ pool' = p1
              /\ success' = [success EXCEPT ![t] = FALSE]
              /\ pc' = [pc EXCEPT ![t] = "finish"]
              /\ UNCHANGED <<db, dblen, written, discovered>>
         [] cls = "Ok" ->
              /\ written' = [written EXCEPT ![h].full = @ + 1]
              /\ metrics' = Bump(m1, "ok")
              /\ db' = DbInsert(db, h, MakeItem(h, r, a, "Ok"))
              /\ dblen' = DbAddLen(db, dblen, h)
              /\ pool' = report_ok(p1, r)
              /\ discovered' = Append(discovered, h)
              /\ success' = [success EXCEPT ![t] = TRUE]
              /\ pc' = [pc EXCEPT ![t] = "finish"]
         [] cls = "Filtered" ->
              /\ metrics' = Bump(m1, "filtered")
              /\ db' = DbInsert(db, h, MakeItem(h, r, a, "WildFiltered"))
              /\ dblen' = DbAddLen(db, dblen, h)
              /\ pool' = p1
              /\ pc' = [pc EXCEPT ![t] = "finish"]
              /\ UNCHANGED <<written, discovered, success>>
         [] cls = "Empty" ->
              /\ metrics' = m1
              /\ pool' = EmptyPenalty(p1, r, pen)
              /\ db' = IF in_round THEN db ELSE DbInsert(db, h, MakeItem(h, r, a, "Failed"))
              /\ dblen' = IF in_round THEN dblen ELSE DbAddLen(db, dblen, h)
              /\ pc' = [pc EXCEPT ![t] = AfterTransient(a)]
              /\ UNCHANGED <<written, discovered, success>>
         [] cls \in {"Elapsed", "QueryErr"} ->
              /\ metrics' = m1
              /\ pool' = p1
              /\ pc' = [pc EXCEPT ![t] = AfterTransient(a)]
              /\ UNCHANGED <<db, dblen, written, discovered, success>>
         [] cls = "SysOk" ->
              /\ written' = [written EXCEPT ![h].full = @ + 1]
              /\ db' = DbInsert(db, h, MakeItem(h, "system", a, "Ok"))
              /\ dblen' = DbAddLen(db, dblen, h)
              /\ discovered' = Append(discovered, h)
              /\ success' = [success EXCEPT ![t] = TRUE]
              /\ pc' = [pc EXCEPT ![t] = "finish"]
              /\ UNCHANGED <<metrics, pool>>
         [] cls = "SysFail" ->
              /\ pc' = [pc EXCEPT ![t] = AfterTransient(a)]
              /\ UNCHANGED <<metrics, pool, db, dblen, written, discovered, success>>

AnswerEffect(t, o) == AnswerEffectOf(t, o, InRound(t))

\* dns::build_query: Name::from_utf8 refuses a label of more than 63 octets
build_query_ok(host) == LabelLen(FirstLabel(host[1])) <= 63
\* what the attempt of task t can see: the OS lookup's result on the fallback
\* path, the error of build_query for a name that does not encode, else what
\* the resolvers do
QueryOutcomes(t) ==
    IF chosen[t] = NoResolver THEN SysOutcomes
    ELSE IF ~build_query_ok(HostOf(t)) THEN {o \in DnsOutcomes : o.kind = "failed"}
    ELSE cfg.upstream

TaskAnswer(t) ==
    /\ pc[t] = "wait"
    /\ \E o \in QueryOutcomes(t) :
          AnswerEffect(t, o)
    /\ UNCHANGED <<poolop, db2, bg, dbop, round_plan, ret, cfg, phase, spawned, sem, attempt, chosen, rl_rate, writers_closed,
                   saved, now, sentInWindow>>

\* after the loop: report the failure when show_all, then exit (the concurrency
\* permit `_p` is dropped)
TaskFinish(t) ==
    /\ pc[t] = "finish"
    /\ IF ~success[t] /\ show_all
       THEN /\ written' = [written EXCEPT ![HostOf(t)].empty = @ + 1]
            /\ metrics' = Bump(metrics, "failed")
            /\ db' = DbInsert(db, HostOf(t), MakeItem(HostOf(t), "", attempt[t], "Failed"))
            /\ dblen' = DbAddLen(db, dblen, HostOf(t))
       ELSE UNCHANGED <<written, metrics, db, dblen>>
    /\ pc' = [pc EXCEPT ![t] = "done"]
    /\ sem' = sem + 1
    /\ UNCHANGED <<poolop, db2, bg, dbop, round_plan, ret, cfg, phase, spawned, attempt, success, chosen, hist, permits, rl_rate,
                   pool, discovered, writers_closed, saved, now,
                   sentInWindow>>

Next ==
    \/ RefillTick
    \/ Cleanup
    \/ Advance
    \/ Load
    \/ Spawn
    \/ Finalize
    \/ \E t \in Tasks : TaskStart(t)
    \/ \E t \in Tasks : TaskAcquire(t)
    \/ \E t \in Tasks : TaskAnswer(t)
    \/ \E t \in Tasks : TaskFinish(t)

Spec == Init /\ [][Next]_vars

\* one host task under every combination of the options
InitWide == InitWith(OneHost)
SpecWide == InitWide /\ [][Next]_vars

\* two host tasks, for the same host or for two hosts, retry = 0, healthy resolvers
InitPair ==
    InitWith({c \in Configs :
                /\ c.words \in WordLists
                /\ Len(c.words) = 2
                /\ ~c.predict
                /\ c.predict_topn = 1
                /\ c.retry = 0
                /\ c.rate = MaxRate
                /\ ~c.not_print
                /\ c.wild_ips # {}
                /\ c.status_file \in CoreStatusFiles
                /\ c.status_file.some
                /\ c.upstream = Healthy
                /\ c.resolvers = Resolvers})
SpecPair == InitPair /\ [][Next]_vars

\* a run with --predict: one word of two labels, then a predictor round for its
\* first label; with resolvers, or with an empty resolver list
InitRound ==
    InitWith({c \in Configs :
                /\ c.words \in DottedWordLists
                /\ c.predict
                /\ c.retry = 0
                /\ c.rate = MaxRate
                /\ c.concurrency = 1
                /\ ~c.not_print
                /\ c.wild_ips # {}
                /\ c.status_file \in CoreStatusFiles
                /\ c.upstream = Healthy
                /\ c.resolvers \in {{}, Resolvers}})
NextRound == Next \/ StartRound
SpecRound == InitRound /\ [][NextRound]_vars

(***************************************************************************)
(* The background tasks of a run: the adaptive rate controller, the         *)
(* periodic status flush, the periodic resolver stats and the progress JSON *)
(* reporter.  Each is a loop around a timer; one action is one turn of the  *)
(* loop.  The terminal progress reporter writes no file and sets no rate    *)
(* and is left out.                                                         *)
(***************************************************************************)
\* main.rs: the adaptive bounds handed to the scanner
AdaptiveFloor == 100
AdaptiveMaxRate(args_max, rate) == IF args_max > 0 THEN args_max ELSE rate
AdaptiveMinRate(args_min, args_max, rate) ==
    LET mx == AdaptiveMaxRate(args_max, rate)
        mn == IF args_min < mx THEN args_min ELSE mx
    IN Max(mn, AdaptiveFloor)

\* a sample smaller than this is skipped
MinSample == 100
Clamp(x, lo, hi) == IF x < lo THEN lo ELSE IF x > hi THEN hi ELSE x
\* the rate the controller computes before clamping it: floor(current * dec)
\* when the error rate is above the threshold, ceil(current * inc) otherwise
AdaptiveRaw(current, d_sent, d_err, o) ==
    LET err_thr == Max(o.err_pct, 1)
        dec_f == Clamp(o.dec_pct, 10, 99)
        inc_f == Clamp(o.inc_pct, 100, 150)
    IN IF d_err * 100 > err_thr * d_sent
       THEN (current * dec_f) \div 100
       ELSE (current * inc_f + 99) \div 100
ErrNow == metrics.timeouts + metrics.servfail + metrics.refused

\* one turn of the controller's loop.  i64::clamp panics when min > max: the
\* panic ends the controller task and leaves the rate as it was.
AdaptiveStep ==
    /\ bg.adaptive = "running"
    /\ LET d_sent == Max(metrics.sent - bg.last_sent, 0)
           d_err == Max(ErrNow - bg.last_err, 0)
           min_r == bg.opt.adaptive_min_rate
           max_r == Max(bg.opt.adaptive_max_rate, cfg.rate)
           new_rate == Clamp(AdaptiveRaw(rl_rate, d_sent, d_err, bg.opt), min_r, max_r)
           sampled == [bg EXCEPT !.last_sent = metrics.sent, !.last_err = ErrNow]
       IN IF d_sent < MinSample
          THEN bg' = sampled /\ rl_rate' = rl_rate
          ELSE IF min_r > max_r
          THEN bg' = [sampled EXCEPT !.adaptive = "panicked"] /\ rl_rate' = rl_rate
          ELSE bg' = sampled /\ rl_rate' = Max(new_rate, 0)
    /\ UNCHANGED <<poolop, db2, dbop, round_plan, ret, cfg, phase, spawned, sem, pc, attempt, success, chosen, hist,
                   metrics, permits, db, dblen, pool, written, discovered, writers_closed, saved,
                   now, sentInWindow>>

\* the periodic flush: save_to_file at a tick
FlushTick ==
    /\ bg.flush = "running"
    /\ saved' = save_to_file(db)
    /\ bg' = [bg EXCEPT !.status_by = "tick"]
    /\ UNCHANGED <<poolop, db2, dbop, round_plan, ret, cfg, phase, spawned, sem, pc, attempt, success, chosen, hist,
                   metrics, permits, rl_rate, db, dblen, pool, written, discovered, writers_closed,
                   now, sentInWindow>>

\* the periodic resolver stats: write the pool's snapshot at a tick
StatsTick ==
    /\ bg.stats = "running"
    /\ bg' = [bg EXCEPT !.stats_by = "tick"]
    /\ UNCHANGED <<poolop, db2, dbop, round_plan, ret, cfg, phase, spawned, sem, pc, attempt, success, chosen, hist,
                   metrics, permits, rl_rate, db, dblen, pool, written, discovered, writers_closed,
                   saved, now, sentInWindow>>

\* spawn_json_reporter: write the progress snapshot at a tick
JsonTick ==
    /\ bg.json = "running"
    /\ bg' = [bg EXCEPT !.json_by = "tick"]
    /\ UNCHANGED <<poolop, db2, dbop, round_plan, ret, cfg, phase, spawned, sem, pc, attempt, success, chosen, hist,
                   metrics, permits, rl_rate, db, dblen, pool, written, discovered, writers_closed,
                   saved, now, sentInWindow>>

\* every background task configured, the adaptive bounds as main.rs derives
\* them from the defaults and the rate
AllBackground ==
    [adaptive_rate |-> TRUE,
     adaptive_min_rate |-> AdaptiveMinRate(DefaultMinRate, 0, cfg.rate),
     adaptive_max_rate |-> AdaptiveMaxRate(0, cfg.rate),
     err_pct |-> ErrThrPct, dec_pct |-> DecPct, inc_pct |-> IncPct,
     flush_interval |-> 1, stats_file |-> TRUE, stats_interval |-> 1,
     json_file |-> TRUE, json_interval |-> 1]
\* one host task with a status file, the resolvers answering, and every
\* background task running
InitBg ==
    /\ InitBut({c \in Configs :
                  /\ c.words \in WordLists /\ Len(c.words) = 1
                  /\ ~c.predict /\ c.predict_topn = 1
                  /\ c.concurrency = 1 /\ c.rate = MaxRate
                  /\ c.upstream = Healthy /\ c.resolvers = Resolvers
                  /\ ~c.not_print /\ c.wild_ips # {} /\ c.retry = 0
                  /\ c.status_file \in CoreStatusFiles /\ c.status_file.some})
    /\ pool = [r \in cfg.resolvers |-> NewInner]
    /\ bg = BgStart(AllBackground)
NextBg == Next \/ AdaptiveStep \/ FlushTick \/ StatsTick \/ JsonTick
SpecBg == InitBg /\ [][NextBg]_vars

(***************************************************************************)
(* The adaptive controller on its own: the host tasks' counters grow by a   *)
(* sample at a time and the controller ticks in between, for rates and      *)
(* --adaptive-min-rate / --adaptive-max-rate values as given on the command *)
(* line.                                                                    *)
(***************************************************************************)
\* cap on the traffic of a run of the controller, in samples
MaxSamples == 2
AdaptiveRates == {50, 100, 1000}
AdaptiveMinArgs == {DefaultMinRate, 200}
AdaptiveMaxArgs == {0, 500, 2000}
AdaptiveOptions(args_min, args_max) ==
    [NoBackground EXCEPT !.adaptive_rate = TRUE,
                         !.adaptive_min_rate = AdaptiveMinRate(args_min, args_max, cfg.rate),
                         !.adaptive_max_rate = AdaptiveMaxRate(args_max, cfg.rate)]
\* the host tasks send d_sent queries, d_err of which time out
Traffic ==
    /\ \E d_sent \in {MinSample - 1, MinSample}, d_err \in {0, ErrThrPct, ErrThrPct + 1} :
          /\ metrics.sent + d_sent <= MaxSamples * MinSample
          /\ metrics' = [metrics EXCEPT !.sent = @ + d_sent, !.timeouts = @ + d_err]
    /\ UNCHANGED <<poolop, db2, bg, dbop, round_plan, ret, cfg, phase, spawned, sem, pc, attempt, success,
                   chosen, hist, permits, rl_rate, db, dblen, pool, written, discovered,
                   writers_closed, saved, now, sentInWindow>>
InitAdaptive ==
    /\ InitBut({[c EXCEPT !.rate = r] :
                  r \in AdaptiveRates,
                  c \in {c \in Configs :
                            /\ c.words \in WordLists /\ Len(c.words) = 1
                            /\ ~c.predict /\ c.predict_topn = 1
                            /\ c.concurrency = 1 /\ c.rate = 0 /\ c.retry = 0
                            /\ c.upstream = Healthy /\ c.resolvers = Resolvers
                            /\ ~c.not_print /\ ~c.only_alive /\ c.wild_ips = {}
                            /\ c.status_file = NoStatusFile}})
    /\ pool = [r \in cfg.resolvers |-> NewInner]
    /\ \E args_min \in AdaptiveMinArgs, args_max \in AdaptiveMaxArgs :
          bg = BgStart(AdaptiveOptions(args_min, args_max))
NextAdaptive == Traffic \/ AdaptiveStep
SpecAdaptive == InitAdaptive /\ [][NextAdaptive]_vars

\* C26: a controller step on a sample of fewer than 100 queries leaves the
\* rate unchanged; a step on a sample of at least 100 sets the rate to
\* floor(current * dec_factor) when d_err/d_sent > err_threshold and to
\* ceil(current * inc_factor) otherwise, clamped to
\* [adaptive_min_rate, adaptive_max_rate], so that the rate then lies in that
\* interval.  (In SpecAdaptive the steps that leave metrics alone are the
\* controller's.)
C26_StepClampsRate ==
    [][metrics' = metrics =>
          LET d_sent == metrics.sent - bg.last_sent
              d_err == ErrNow - bg.last_err
              lo == bg.opt.adaptive_min_rate
              hi == bg.opt.adaptive_max_rate
              raw == IF d_err * 100 > bg.opt.err_pct * d_sent
                     THEN (rl_rate * bg.opt.dec_pct) \div 100
                     ELSE (rl_rate * bg.opt.inc_pct + 99) \div 100
          IN IF d_sent < MinSample
             THEN rl_rate' = rl_rate
             ELSE /\ rl_rate' = (IF raw < lo THEN lo ELSE IF raw > hi THEN hi ELSE raw)
                  /\ lo <= rl_rate' /\ rl_rate' <= hi]_vars

(***************************************************************************)
(* Runs on a word list file that holds a word that is not a DNS label.      *)
(***************************************************************************)
InitInvalid ==
    InitWith({[c EXCEPT !.words = read_wordlist(f)] :
                f \in WordFiles,
                c \in {c \in Configs :
                          /\ c.words \in WordLists /\ Len(c.words) = 1
                          /\ ~c.predict /\ c.predict_topn = 1
                          /\ c.concurrency = 1 /\ c.rate = MaxRate
                          /\ c.upstream = Healthy /\ c.resolvers = Resolvers
                          /\ ~c.not_print /\ c.wild_ips # {}
                          /\ c.status_file \in CoreStatusFiles}})
SpecInvalid == InitInvalid /\ [][Next]_vars

\* C30: a word that is not a valid DNS label is dropped: its host task makes no
\* attempt, so that it sends no query, adds nothing to `sent` and reports no
\* failure to the pool.
C30_InvalidLabelDropped ==
    \A t \in Tasks :
        LabelLen(HostOf(t)[1]) > 63 => (attempt[t] = 0 /\ hist[t] = <<>>)

\* C22: once the run is finalized and the final snapshots are written, no step
\* changes the rate or writes the status file, the resolver stats file or the
\* progress JSON file again.
C22_NoBackgroundAfterFinalize ==
    [][phase = "done" =>
          /\ rl_rate' = rl_rate
          /\ saved' = saved
          /\ bg'.status_by = bg.status_by
          /\ bg'.stats_by = bg.stats_by
          /\ bg'.json_by = bg.json_by]_vars

(***************************************************************************)
(* The ResolverPool on its own: its public calls in any order, as made by   *)
(* the host tasks, the progress reporters and the unit tests.  report_ok    *)
(* and report_fail run under the pool's map lock, choose_random and counts  *)
(* under its order lock; each call is one step.                             *)
(***************************************************************************)
\* cap on the report_ok and report_fail calls of a run of the pool
MaxReports == 4

PoolUnchanged ==
    UNCHANGED <<poolop, db2, bg, dbop, round_plan, cfg, phase, spawned, sem, pc, attempt, success, chosen, hist, metrics,
                permits, rl_rate, db, dblen, written, discovered, writers_closed,
                saved, sentInWindow>>

\* ResolverPool::report_ok(addr)
PoolReportOk ==
    /\ \E r \in DOMAIN pool :
          /\ ret.reports < MaxReports
          /\ pool' = report_ok(pool, r)
          /\ ret' = [NoCall EXCEPT !.op = "report_ok", !.addr = r,
                                   !.reports = ret.reports + 1]
    /\ UNCHANGED now
    /\ PoolUnchanged

\* ResolverPool::report_fail(addr)
PoolReportFail ==
    /\ \E r \in DOMAIN pool :
          /\ ret.reports < MaxReports
          /\ pool' = report_fail(pool, r)
          /\ ret' = [NoCall EXCEPT !.op = "report_fail", !.addr = r,
                                   !.reports = ret.reports + 1]
    /\ UNCHANGED now
    /\ PoolUnchanged

\* ResolverPool::choose_random()
PoolChooseRandom ==
    /\ pool' = maybe_reenable(pool)
    /\ IF Active(pool') # {}
       THEN \E r \in Active(pool') :
               ret' = [ret EXCEPT !.op = "choose_random", !.addr = r,
                                  !.active = 0, !.total = 0]
       ELSE ret' = [ret EXCEPT !.op = "choose_random", !.addr = NoResolver,
                               !.active = 0, !.total = 0]
    /\ UNCHANGED now
    /\ PoolUnchanged

\* ResolverPool::counts()
PoolCounts ==
    /\ pool' = maybe_reenable(pool)
    /\ ret' = [ret EXCEPT !.op = "counts", !.addr = NoResolver,
                          !.active = Cardinality(Active(pool')),
                          !.total = Cardinality(DOMAIN pool')]
    /\ UNCHANGED now
    /\ PoolUnchanged

NextPool ==
    \/ PoolReportOk
    \/ PoolReportFail
    \/ PoolChooseRandom
    \/ PoolCounts
    \/ Advance

\* the counters an endpoint may have reached without being disabled: fresh, two
\* failures short of the no-success threshold, and short of the ratio threshold
\* after two or three successes
StartInners ==
    {[NewInner EXCEPT !.ok = c[1], !.fail = c[2]] :
        c \in {<<0, 0>>, <<0, DisableMinFail - 2>>, <<2, DisableMinTotal - 4>>,
                <<3, DisableMinTotal - 5>>}}

\* a pool of no, one or two endpoints; the rest of the run stays as built
InitPool ==
    /\ InitBut({c \in Configs :
                  /\ c.retry = 0
                  /\ c.rate = 0
                  /\ ~c.not_print
                  /\ ~c.only_alive
                  /\ c.concurrency = 1
                  /\ c.words \in WordLists
                  /\ Len(c.words) = 1
                  /\ ~c.predict
                  /\ c.predict_topn = 1
                  /\ c.wild_ips = {}
                  /\ c.status_file = NoStatusFile
                  /\ c.upstream = DnsOutcomes})
    /\ pool \in [cfg.resolvers -> StartInners]
    /\ bg = BgStart(NoBackground)
SpecPool == InitPool /\ [][NextPool]_vars

(***************************************************************************)
(* The ResolverPool under concurrent callers.  report_ok and report_fail   *)
(* hold the map lock for the whole call, choose_random and counts hold the *)
(* order lock for the whole call: at most one call of each pair is in      *)
(* progress, and the two interleave at every load and store.               *)
(***************************************************************************)
PoolConcUnchanged ==
    UNCHANGED <<db2, bg, dbop, round_plan, cfg, phase, spawned, sem, pc, attempt, success,
                chosen, hist, metrics, permits, rl_rate, db, dblen, written, discovered,
                writers_closed, saved, sentInWindow, now>>

\* a stamp that does not take the disabled_at mutex
GuardIgnored(r) == TRUE
\* the disabled_at mutex of endpoint r is free for report_fail: maybe_reenable
\* holds it from its lock to the end of the re-enabling
GuardFree(r) ==
    ~(poolop.sel.cur = r /\ poolop.sel.pc \in {"mr_ok", "mr_fail", "mr_enable", "mr_clear"})

\* report_ok: the whole call, under the map lock
ConcReportOk ==
    /\ poolop.rf.pc = "idle"
    /\ ret.reports < MaxReports
    /\ \E r \in DOMAIN pool :
          /\ pool' = report_ok(pool, r)
          /\ ret' = [ret EXCEPT !.reports = @ + 1]
    /\ UNCHANGED poolop
    /\ PoolConcUnchanged

\* report_fail: take the map lock, fail.fetch_add(1)
RfBegin ==
    /\ poolop.rf.pc = "idle"
    /\ ret.reports < MaxReports
    /\ \E r \in DOMAIN pool :
          /\ pool' = [pool EXCEPT ![r].fail = @ + 1]
          /\ poolop' = [poolop EXCEPT !.rf = [pc |-> "load_ok", addr |-> r, ok |-> 0, fail |-> 0]]
    /\ ret' = [ret EXCEPT !.reports = @ + 1]
    /\ PoolConcUnchanged

\* should_disable: ok.load
RfLoadOk ==
    /\ poolop.rf.pc = "load_ok"
    /\ poolop' = [poolop EXCEPT !.rf.ok = pool[poolop.rf.addr].ok, !.rf.pc = "load_fail"]
    /\ UNCHANGED <<pool, ret>>
    /\ PoolConcUnchanged

\* should_disable: fail.load and the test; the call returns when the test fails
RfLoadFail ==
    /\ poolop.rf.pc = "load_fail"
    /\ LET f == pool[poolop.rf.addr].fail IN
       poolop' = IF should_disable(poolop.rf.ok, f)
                 THEN [poolop EXCEPT !.rf.fail = f, !.rf.pc = "store"]
                 ELSE [poolop EXCEPT !.rf = PoolIdle.rf]
    /\ UNCHANGED <<pool, ret>>
    /\ PoolConcUnchanged

\* disabled.store(true)
RfStore ==
    /\ poolop.rf.pc = "store"
    /\ pool' = [pool EXCEPT ![poolop.rf.addr].disabled = TRUE]
    /\ poolop' = [poolop EXCEPT !.rf.pc = "stamp"]
    /\ UNCHANGED ret
    /\ PoolConcUnchanged

\* *disabled_at.lock() = Some(now)
RfStamp ==
    /\ poolop.rf.pc = "stamp"
    /\ GuardFree(poolop.rf.addr)
    /\ pool' = [pool EXCEPT ![poolop.rf.addr].disabled_at = now]
    /\ poolop' = [poolop EXCEPT !.rf.pc = "cb"]
    /\ UNCHANGED ret
    /\ PoolConcUnchanged

\* the on_disable callback, then the map lock is released
RfCallback ==
    /\ poolop.rf.pc = "cb"
    /\ pool' = [pool EXCEPT ![poolop.rf.addr].cb = @ + 1]
    /\ poolop' = [poolop EXCEPT !.rf = PoolIdle.rf]
    /\ UNCHANGED ret
    /\ PoolConcUnchanged

\* choose_random or counts: take the order lock
SelBegin ==
    /\ poolop.sel.pc = "idle"
    /\ \E op \in {"choose_random", "counts"} :
          poolop' = [poolop EXCEPT !.sel = [pc |-> "next", op |-> op, rest |-> DOMAIN pool,
                                            cur |-> NoResolver]]
    /\ UNCHANGED <<pool, ret>>
    /\ PoolConcUnchanged

\* `for r in order.iter()`: the next endpoint
SelNext ==
    /\ poolop.sel.pc = "next"
    /\ \E r \in poolop.sel.rest :
          poolop' = [poolop EXCEPT !.sel.cur = r, !.sel.rest = @ \ {r}, !.sel.pc = "mr_load"]
    /\ UNCHANGED <<pool, ret>>
    /\ PoolConcUnchanged

\* maybe_reenable: `if !disabled.load() { return; }`
MrLoad ==
    /\ poolop.sel.pc = "mr_load"
    /\ poolop' = [poolop EXCEPT !.sel.pc = IF pool[poolop.sel.cur].disabled
                                           THEN "mr_lock" ELSE "next"]
    /\ UNCHANGED <<pool, ret>>
    /\ PoolConcUnchanged

\* maybe_reenable: lock disabled_at and test the cooldown; the guard is dropped
\* at once when there is no stamp or the cooldown has not elapsed
MrLock ==
    /\ poolop.sel.pc = "mr_lock"
    /\ LET at == pool[poolop.sel.cur].disabled_at IN
       poolop' = [poolop EXCEPT !.sel.pc = IF at >= 0 /\ now - at >= CooldownMin
                                           THEN "mr_ok" ELSE "next"]
    /\ UNCHANGED <<pool, ret>>
    /\ PoolConcUnchanged

\* maybe_reenable: ok.store(0)
MrResetOk ==
    /\ poolop.sel.pc = "mr_ok"
    /\ pool' = [pool EXCEPT ![poolop.sel.cur].ok = 0]
    /\ poolop' = [poolop EXCEPT !.sel.pc = "mr_fail"]
    /\ UNCHANGED ret
    /\ PoolConcUnchanged

\* maybe_reenable: fail.store(0)
MrResetFail ==
    /\ poolop.sel.pc = "mr_fail"
    /\ pool' = [pool EXCEPT ![poolop.sel.cur].fail = 0]
    /\ poolop' = [poolop EXCEPT !.sel.pc = "mr_enable"]
    /\ UNCHANGED ret
    /\ PoolConcUnchanged

\* maybe_reenable: disabled.store(false)
MrEnable ==
    /\ poolop.sel.pc = "mr_enable"
    /\ pool' = [pool EXCEPT ![poolop.sel.cur].disabled = FALSE]
    /\ poolop' = [poolop EXCEPT !.sel.pc = "mr_clear"]
    /\ UNCHANGED ret
    /\ PoolConcUnchanged

\* maybe_reenable: *guard = None, and the guard is dropped
MrClear ==
    /\ poolop.sel.pc = "mr_clear"
    /\ pool' = [pool EXCEPT ![poolop.sel.cur].disabled_at = -1]
    /\ poolop' = [poolop EXCEPT !.sel.pc = "next"]
    /\ UNCHANGED ret
    /\ PoolConcUnchanged

\* the filter over the endpoints that are not disabled and the result; the
\* order lock is released
SelReturn ==
    /\ poolop.sel.pc = "next"
    /\ poolop.sel.rest = {}
    /\ IF poolop.sel.op = "counts"
       THEN ret' = [ret EXCEPT !.op = "counts", !.addr = NoResolver,
                               !.active = Cardinality(Active(pool)),
                               !.total = Cardinality(DOMAIN pool)]
       ELSE IF Active(pool) # {}
       THEN \E r \in Active(pool) :
               ret' = [ret EXCEPT !.op = "choose_random", !.addr = r,
                                  !.active = 0, !.total = 0]
       ELSE ret' = [ret EXCEPT !.op = "choose_random", !.addr = NoResolver,
                               !.active = 0, !.total = 0]
    /\ poolop' = [poolop EXCEPT !.sel = PoolIdle.sel]
    /\ UNCHANGED pool
    /\ PoolConcUnchanged

NextPoolConc ==
    \/ ConcReportOk
    \/ RfBegin
    \/ RfLoadOk
    \/ RfLoadFail
    \/ RfStore
    \/ RfStamp
    \/ RfCallback
    \/ SelBegin
    \/ SelNext
    \/ MrLoad
    \/ MrLock
    \/ MrResetOk
    \/ MrResetFail
    \/ MrEnable
    \/ MrClear
    \/ SelReturn
    \/ Advance
\* one endpoint: the state of an endpoint does not depend on the others
InitPoolConc ==
    /\ InitPool
    /\ Cardinality(cfg.resolvers) = 1
SpecPoolConc == InitPoolConc /\ [][NextPoolConc]_vars

(***************************************************************************)
(* The StatusDb on its own: add, set, del and length called one after the   *)
(* other, each call running to completion                                  *)
(***************************************************************************)
\* the entries a caller stores for a host
DbItems(h) == {MakeItem(h, "r1", 1, st) : st \in {"Ok", "Failed"}}
Present(h) == IF h \in DOMAIN db THEN 1 ELSE 0

DbUnchanged ==
    UNCHANGED <<poolop, db2, bg, round_plan, cfg, phase, spawned, sem, pc, attempt, success, chosen, hist,
                metrics, permits, rl_rate, pool, written, discovered, writers_closed,
                saved, sentInWindow>>

DbAdd ==
    /\ \E h \in Hosts : \E item \in DbItems(h) :
          /\ db' = DbInsert(db, h, item)
          /\ dblen' = DbAddLen(db, dblen, h)
          /\ ret' = [NoCall EXCEPT !.op = "add", !.active = Present(h)]
    /\ UNCHANGED <<now, dbop>>
    /\ DbUnchanged

DbSet ==
    /\ \E h \in Hosts : \E item \in DbItems(h) :
          /\ db' = DbInsert(db, h, item)
          /\ dblen' = DbAddLen(db, dblen, h)
          /\ ret' = [NoCall EXCEPT !.op = "set", !.active = Present(h)]
    /\ UNCHANGED <<now, dbop>>
    /\ DbUnchanged

DbDel ==
    /\ \E h \in Hosts :
          /\ db' = DbRemove(db, h)
          /\ dblen' = DbDelLen(db, dblen, h)
          /\ ret' = [NoCall EXCEPT !.op = "del", !.active = Present(h)]
    /\ UNCHANGED <<now, dbop>>
    /\ DbUnchanged

DbLength ==
    /\ ret' = [NoCall EXCEPT !.op = "length", !.total = dblen]
    /\ UNCHANGED <<db, dblen, now, dbop>>
    /\ DbUnchanged

NextDb == DbAdd \/ DbSet \/ DbDel \/ DbLength \/ Advance

\* a store as create_memory_db builds it; the rest of the run stays as built
InitDb ==
    InitWith({c \in Configs :
                /\ c.retry = 0
                /\ c.rate = 0
                /\ ~c.not_print
                /\ ~c.only_alive
                /\ c.concurrency = 1
                /\ c.words \in WordLists
                /\ Len(c.words) = 1
                /\ ~c.predict
                /\ c.predict_topn = 1
                /\ c.wild_ips = {}
                /\ c.status_file = NoStatusFile
                /\ c.upstream = DnsOutcomes
                /\ c.resolvers = Resolvers})
SpecDb == InitDb /\ [][NextDb]_vars

(***************************************************************************)
(* The persistence of the StatusDb on its own: a store is filled, saved to  *)
(* a file, and a file is loaded into a second store, as the test            *)
(* persist_roundtrip does and as two runs with the same --status-file do.   *)
(***************************************************************************)
\* the items the host tasks build: found, filtered as wildcard, failed
PersistDbItems(h) ==
    {MakeItem(h, "r1", 0, "Ok"), MakeItem(h, "r1", 1, "WildFiltered"),
     MakeItem(h, "", 1, "Failed")}
PersistCall(op, f, n) ==
    [op |-> op, addr |-> NoResolver, active |-> 0, total |-> n, reports |-> 0, file |-> f]
PersistUnchanged ==
    UNCHANGED <<poolop, bg, round_plan, cfg, phase, spawned, sem, pc, attempt, success, chosen, hist,
                metrics, permits, rl_rate, pool, written, discovered, writers_closed,
                sentInWindow, now, dbop>>

PersistAdd ==
    /\ \E h \in Hosts : \E item \in PersistDbItems(h) :
          /\ db' = DbInsert(db, h, item)
          /\ dblen' = DbAddLen(db, dblen, h)
    /\ ret' = PersistCall("add", NoStatusFile, 0)
    /\ UNCHANGED <<saved, db2>>
    /\ PersistUnchanged

PersistDel ==
    /\ \E h \in Hosts :
          /\ db' = DbRemove(db, h)
          /\ dblen' = DbDelLen(db, dblen, h)
    /\ ret' = PersistCall("del", NoStatusFile, 0)
    /\ UNCHANGED <<saved, db2>>
    /\ PersistUnchanged

PersistSave ==
    /\ saved' = save_to_file(db)
    /\ ret' = PersistCall("save", NoStatusFile, 0)
    /\ UNCHANGED <<db, dblen, db2>>
    /\ PersistUnchanged

\* create_memory_db for the second store
PersistNew ==
    /\ db2' = [items |-> <<>>, length |-> 0]
    /\ ret' = PersistCall("new", NoStatusFile, 0)
    /\ UNCHANGED <<db, dblen, saved>>
    /\ PersistUnchanged

\* the files load_from_file is called on: the file last saved, a path that does
\* not exist, and a damaged copy of the saved file that no longer parses
PersistFiles ==
    {saved, NoStatusFile, [saved EXCEPT !.some = TRUE, !.json = FALSE]}
PersistLoad ==
    /\ \E f \in PersistFiles :
          LET loaded == load_from_file(db2.items, db2.length, f)
          IN /\ db2' = [items |-> loaded.items, length |-> loaded.length]
             /\ ret' = PersistCall("load", f, loaded.n)
    /\ UNCHANGED <<db, dblen, saved>>
    /\ PersistUnchanged

NextPersist == PersistAdd \/ PersistDel \/ PersistSave \/ PersistNew \/ PersistLoad
SpecPersist == InitDb /\ [][NextPersist]_vars

\* C23: a load, into an empty StatusDb, of the file just saved from a StatusDb
\* gives every host of the saved store an entry with the same state, resolver
\* and retry count, and returns the number of saved entries.
C23_SaveLoadRoundTrip ==
    [][(/\ ret.op = "save"
        /\ ret'.op = "load"
        /\ ret'.file = saved
        /\ DOMAIN db2.items = {})
       => /\ \A h \in DOMAIN db :
                /\ h \in DOMAIN db2'.items
                /\ db2'.items[h].state = db[h].state
                /\ db2'.items[h].dns = db[h].dns
                /\ db2'.items[h].retry = db[h].retry
          /\ ret'.total = Cardinality(DOMAIN db)]_vars
C23_Witness ==
    /\ ret.op = "load" /\ ret.file = saved /\ ret.total = 2
    /\ Cardinality(DOMAIN db) = 2
    /\ DOMAIN db2.items = DOMAIN db
    /\ \E h \in DOMAIN db : db[h].state = "WildFiltered" /\ db2.items[h].state = "WildFiltered"
    /\ \E h \in DOMAIN db : db[h].state = "Ok" /\ db2.items[h].state = "Ok"

\* C24: a load of a file that does not exist, or of a file whose content does
\* not parse, returns 0 and leaves the StatusDb as it was.
C24_BadFileLoadsNothing ==
    [][(ret'.op = "load" /\ (~ret'.file.some \/ ~ret'.file.json))
       => (ret'.total = 0 /\ db2' = db2)]_vars
C24_Witness ==
    /\ ret.op = "load" /\ ret.file.some /\ ~ret.file.json /\ ret.file.items # {}
    /\ ret.total = 0
    /\ db2.length = 1

(***************************************************************************)
(* wildcard::is_wildcard on its own, called on any answers and any wildcard *)
(* set over a few addresses.                                                *)
(***************************************************************************)
WildcardIps == {"1.2.3.4", "5.6.7.8", "9.9.9.9", "10.0.0.1"}
WildcardCall ==
    /\ \E answers \in SUBSET WildcardIps, wild_ips \in SUBSET WildcardIps :
          ret' = [op |-> "is_wildcard", answers |-> answers, wild_ips |-> wild_ips,
                  result |-> is_wildcard(answers, wild_ips)]
    /\ UNCHANGED <<db, dblen, saved, db2>>
    /\ PersistUnchanged
NextWildcard == WildcardCall
SpecWildcard == InitDb /\ [][NextWildcard]_vars

\* C25: is_wildcard(answers, W) is true exactly when W is not empty, answers is
\* not empty and every element of answers is in W.
C25_IsWildcardIffNonEmptySubset ==
    ret.op = "is_wildcard" =>
        (ret.result <=> (/\ ret.wild_ips # {}
                         /\ ret.answers # {}
                         /\ ret.answers \subseteq ret.wild_ips))
C25_Witness ==
    /\ ret.op = "is_wildcard"
    /\ ret.result
    /\ Cardinality(ret.answers) = 2
    /\ Cardinality(ret.wild_ips) = 3

(***************************************************************************)
(* discovery::dynamic_extend on its own: inputs are drawn, then the         *)
(* function is called twice on them.  The result of a call is kept as the   *)
(* set of its entries (the function sorts and dedups its list).             *)
(***************************************************************************)
\* cap on the length of the discovered list
MaxDiscovered == 3
\* first labels of discovered hosts: a basic seed, two labels of three
\* characters, one of one character and one of 33
PredictLabels == basic_seeds \cup {"svc", "ops", "a", LongLabel}
PredictBases == {{}, basic_seeds, basic_seeds \cup {"svc"}}
PredictLists ==
    UNION {[1..k -> {MakeHost(l, Apex) : l \in PredictLabels}] : k \in 0..MaxDiscovered}

PredictInput ==
    /\ ret.op = "none"
    /\ \E d \in PredictLists, base \in PredictBases, n \in 0..MaxTopN :
          ret' = [op |-> "dynamic_extend", discovered |-> d, base |-> base, top_n |-> n,
                  results |-> <<>>]
    /\ UNCHANGED <<db, dblen, saved, db2>>
    /\ PersistUnchanged
PredictCall ==
    /\ ret.op = "dynamic_extend"
    /\ Len(ret.results) < 2
    /\ \E r \in dynamic_extend(ret.discovered, ret.base, ret.top_n) :
          ret' = [ret EXCEPT !.results = Append(@, r)]
    /\ UNCHANGED <<db, dblen, saved, db2>>
    /\ PersistUnchanged
NextPredict == PredictInput \/ PredictCall
SpecPredict == InitDb /\ [][NextPredict]_vars

\* C27 as stated: every entry dynamic_extend returns is not in base and has a
\* label length in [3,32].
C27_EntriesOutsideBaseAndSized ==
    ret.op = "dynamic_extend" =>
        \A i \in 1..Len(ret.results) : \A e \in ret.results[i] :
            /\ e \notin ret.base
            /\ LabelLen(e) >= 3 /\ LabelLen(e) <= 32
\* C27, amended: every entry dynamic_extend returns is not in base, and every
\* entry that is not a common service token has a label length in [3,32].
C27_MinedEntriesSized ==
    ret.op = "dynamic_extend" =>
        \A i \in 1..Len(ret.results) : \A e \in ret.results[i] :
            /\ e \notin ret.base
            /\ e \notin CommonSeeds => (LabelLen(e) >= 3 /\ LabelLen(e) <= 32)
C27_Witness ==
    /\ ret.op = "dynamic_extend"
    /\ Len(ret.results) >= 1
    /\ ret.base = basic_seeds
    /\ \E i \in 1..Len(ret.discovered) : ret.discovered[i][1] = "a"
    /\ \E i \in 1..Len(ret.discovered) : ret.discovered[i][1] = "svc"
    /\ ret.results[1] = {"svc", "db", "edge"}

\* C28: two calls of dynamic_extend on the same discovered list, base and n
\* return the same list.
C28_SameInputsSameResult ==
    (ret.op = "dynamic_extend" /\ Len(ret.results) = 2) => ret.results[1] = ret.results[2]

\* C29: when at least n distinct first labels of length in [3,32] outside base
\* are discovered, n of them are returned, and they are the most frequent of
\* them.
C29_TopNOutsideBase ==
    (ret.op = "dynamic_extend" /\ Len(ret.results) >= 1) =>
        LET d == ret.discovered
            eligible == {l \in {FirstLabel(d[i][1]) : i \in 1..Len(d)} :
                            /\ LabelLen(l) >= 3 /\ LabelLen(l) <= 32
                            /\ l \notin ret.base}
            mined == ret.results[1] \cap eligible
        IN /\ Cardinality(eligible) >= ret.top_n => Cardinality(mined) = ret.top_n
           /\ \A x \in mined, y \in eligible \ mined : Freq(d, x) >= Freq(d, y)

(***************************************************************************)
(* The StatusDb under concurrent callers.  A call takes the write lock of   *)
(* the shard of its key, updates the map of the shard and then, still under *)
(* the lock, the length counter; length reads the counter without a lock.   *)
(***************************************************************************)
\* get_shard, for two of the shards
Shards == {0, 1}
ShardOf(h) == IF h = MakeHost("a", Apex) THEN 0 ELSE 1
ShardSize(s) == Cardinality({k \in DOMAIN db : ShardOf(k) = s})
\* `shard.items.write().await` returns: no other caller holds the lock
ShardFree(s) == \A p \in DbProcs : dbop[p].pc = "idle" \/ dbop[p].shard # s

\* a counter update that always adds
LenDeltaAlwaysUp(op) == 1
\* fetch_add in add and set, fetch_sub in del and cleanup
LenDelta(op) == IF op \in {"add", "set"} THEN 1 ELSE -1

\* add, set or del called by task p: the write lock is taken
DbBegin(p) ==
    /\ p # 0
    /\ dbop[p].pc = "idle"
    /\ \E op \in {"add", "set", "del"}, h \in Hosts :
          \E item \in (IF op = "del" THEN {NoOutcome} ELSE DbItems(h)) :
             /\ ShardFree(ShardOf(h))
             /\ dbop' = [dbop EXCEPT ![p] = [pc |-> "locked", op |-> op,
                                             shard |-> ShardOf(h), key |-> h,
                                             item |-> item, keys |-> {}]]
    /\ UNCHANGED <<db, dblen, now, ret>>
    /\ DbUnchanged

\* contains_key and insert, or remove; the call returns when the counter needs
\* no update
DbApply(p) ==
    /\ p # 0
    /\ dbop[p].pc = "locked"
    /\ LET c == dbop[p]
           counted == IF c.op = "del" THEN c.key \in DOMAIN db ELSE c.key \notin DOMAIN db
       IN /\ db' = IF c.op = "del" THEN DbRemove(db, c.key) ELSE DbInsert(db, c.key, c.item)
          /\ dbop' = [dbop EXCEPT ![p] = IF counted THEN [c EXCEPT !.pc = "updated"]
                                          ELSE DbIdle]
    /\ UNCHANGED <<dblen, now, ret>>
    /\ DbUnchanged

\* fetch_add or fetch_sub on length, then the lock is dropped
DbCount(p) ==
    /\ p # 0
    /\ dbop[p].pc = "updated"
    /\ dblen' = dblen + LenDelta(dbop[p].op)
    /\ dbop' = [dbop EXCEPT ![p] = DbIdle]
    /\ UNCHANGED <<db, now, ret>>
    /\ DbUnchanged

\* cleanup reaches a shard: takes its write lock and collects the expired keys
SweepBegin ==
    /\ dbop[0].pc = "idle"
    /\ \E s \in Shards :
          /\ ShardFree(s)
          /\ dbop' = [dbop EXCEPT ![0] =
                         [pc |-> "sweeping", op |-> "cleanup", shard |-> s, key |-> NoKey,
                          item |-> NoOutcome,
                          keys |-> {k \in DOMAIN db :
                                       /\ ShardOf(k) = s
                                       /\ db[k].time < Max(now - Expiration, 0)}]]
    /\ UNCHANGED <<db, dblen, now, ret>>
    /\ DbUnchanged

\* cleanup removes one of the collected keys
SweepRemove ==
    /\ dbop[0].pc = "sweeping"
    /\ \E k \in dbop[0].keys :
          /\ db' = DbRemove(db, k)
          /\ dbop' = [dbop EXCEPT ![0] = [@ EXCEPT !.pc = "updated", !.key = k,
                                                   !.keys = @ \ {k}]]
    /\ UNCHANGED <<dblen, now, ret>>
    /\ DbUnchanged

\* fetch_sub for the key just removed
SweepCount ==
    /\ dbop[0].pc = "updated"
    /\ dblen' = dblen + LenDelta(dbop[0].op)
    /\ dbop' = [dbop EXCEPT ![0] = [@ EXCEPT !.pc = "sweeping", !.key = NoKey]]
    /\ UNCHANGED <<db, now, ret>>
    /\ DbUnchanged

\* every collected key is removed: the lock of the shard is dropped
SweepEnd ==
    /\ dbop[0].pc = "sweeping"
    /\ dbop[0].keys = {}
    /\ dbop' = [dbop EXCEPT ![0] = DbIdle]
    /\ UNCHANGED <<db, dblen, now, ret>>
    /\ DbUnchanged

NextDbConc ==
    \/ \E p \in DbProcs : DbBegin(p)
    \/ \E p \in DbProcs : DbApply(p)
    \/ \E p \in DbProcs : DbCount(p)
    \/ SweepBegin
    \/ SweepRemove
    \/ SweepCount
    \/ SweepEnd
    \/ DbLength
    \/ Advance

SpecDbConc == InitDb /\ [][NextDbConc]_vars

(***************************************************************************)
(* Properties                                                              *)
(***************************************************************************)
\* C1: with a rate R > 0 that is never changed, the number of queries counted as
\* sent between two consecutive refill ticks never exceeds R.
C1_SentPerWindowWithinRate ==
    cfg.rate > 0 => sentInWindow <= rl_rate

\* C2: a host task that finds at its start an entry Ok or WildFiltered for its host
\* bumps `skipped` by one and exits; it makes no attempt, and the other counters,
\* the pool, the writers, the discovered list, the store and the limiter are as
\* they were.
C2_SkipOnlyCountsSkipped ==
    [][\A t \in Tasks :
          (/\ pc[t] = "start"
           /\ HostOf(t) \in DOMAIN db
           /\ db[HostOf(t)].state \in {"Ok", "WildFiltered"}
           /\ pc'[t] # "start")
          => /\ pc'[t] = "done"
             /\ attempt'[t] = 0
             /\ metrics' = [metrics EXCEPT !.skipped = @ + 1]
             /\ UNCHANGED <<pool, written, discovered, db, dblen, permits,
                            sentInWindow, success>>]_vars

\* C2, reached: a task ended by the skip, for an entry in each of the two states
C2_Witness ==
    \E t \in Tasks :
        /\ pc[t] = "done"
        /\ Last(t).cls = "Skipped"
        /\ HostOf(t) \in DOMAIN db
        /\ db[HostOf(t)].state = "WildFiltered"
        /\ metrics.skipped = 1
        /\ metrics.sent = 0

\* C3: a host that the loaded status file lists as Ok or WildFiltered is skipped by
\* its task, and no attempt is made for it, whatever the age of the entry and
\* however the load, the sweeper and the task interleave.
C3_FileTerminalIsSkipped ==
    \A t \in Tasks :
        (/\ \E p \in cfg.status_file.items :
               p.domain = HostOf(t) /\ p.state \in {"Ok", "WildFiltered"}
         /\ pc[t] \notin {"unspawned", "start"})
        => (Last(t).cls = "Skipped" /\ attempt[t] = 0 /\ metrics.sent = 0)

\* C4: in one run no host has more than one ScanResult handed to the writers,
\* also when the word list repeats a label and however the host tasks interleave.
C4_OneResultPerHost ==
    \A h \in Hosts : written[h].full + written[h].empty <= 1

\* C5: the exit of a host task whose attempt was answered NXDomain does not bump
\* `failed`, whatever not_print and only_alive are.
C5_NXDomainNeverFailed ==
    [][\A t \in Tasks :
          (Last(t).cls = "NXDomain" /\ pc[t] = "finish" /\ pc'[t] = "done")
          => metrics'.failed = metrics.failed]_vars

\* C6: after a wildcard-filtered answer the task makes no further attempt, does
\* not bump `filtered` again, and the entry of its host is WildFiltered when the
\* task exits, whatever show_all is.
C6_FilteredStaysWildFiltered ==
    [][\A t \in Tasks :
          (Last(t).cls = "Filtered" /\ pc[t] = "finish" /\ pc'[t] = "done")
          => /\ attempt'[t] = attempt[t]
             /\ metrics'.filtered = metrics.filtered
             /\ HostOf(t) \in DOMAIN db' => db'[HostOf(t)].state = "WildFiltered"]_vars

\* C7: with retry = k > 0 a host task makes at most k+1 attempts (and `sent` grows
\* by at most k+1 per task), and a task that is through with its loop after
\* nothing but attempts without records (empty answer, no answer, query error)
\* has made exactly k+1.
C7_AtMostRetryPlusOne ==
    cfg.retry > 0 =>
        /\ metrics.sent <= Len(cfg.words) * (cfg.retry + 1)
        /\ \A t \in Tasks :
              /\ attempt[t] <= cfg.retry + 1
              /\ Len(hist[t]) <= cfg.retry + 1
              /\ (/\ pc[t] \in {"finish", "done"}
                  /\ \A i \in DOMAIN hist[t] :
                        hist[t][i].cls \in {"Empty", "Elapsed", "QueryErr"})
                 => attempt[t] = cfg.retry + 1

\* C7, reached: a task that exhausted retry = k > 0 on transient outcomes
C7_Witness ==
    /\ cfg.retry > 0
    /\ \E t \in Tasks :
          /\ pc[t] = "done"
          /\ attempt[t] = cfg.retry + 1
          /\ Len(hist[t]) = cfg.retry + 1
          /\ \A i \in DOMAIN hist[t] : hist[t][i].cls \in {"Empty", "Elapsed"}

\* C8: with retry = 0 a task whose first attempt ends in a transient error makes
\* exactly one more attempt, a task whose first attempt ends Ok, Filtered or
\* NXDomain makes no more, and a first attempt that times out followed by an
\* answer with an address gives ok = 1, timeouts = 1, sent = 2.
C8_SmartProtectOnce ==
    (cfg.retry = 0 /\ Len(cfg.words) = 1) =>
        \A t \in Tasks :
            /\ attempt[t] <= 2
            /\ (Len(hist[t]) >= 1 /\ hist[t][1].cls \in {"Ok", "Filtered", "NXDomain"})
               => attempt[t] = 1
            /\ (/\ pc[t] \in {"finish", "done"}
                /\ Len(hist[t]) >= 1
                /\ hist[t][1].cls \in {"Empty", "Elapsed", "QueryErr"})
               => attempt[t] = 2
            /\ (/\ Len(hist[t]) = 2
                /\ \/ hist[t][1].cls = "Elapsed"
                   \/ hist[t][1].cls = "Empty" /\ hist[t][1].rcode = "TIMEOUT"
                /\ hist[t][2].cls = "Ok"
                /\ hist[t][2].rcode = "NoError")
               => (metrics.ok = 1 /\ metrics.timeouts = 1 /\ metrics.sent = 2)

C10_NoResponseCountsTimeout ==
    [][\A t \in Tasks :
          (/\ pc[t] = "wait"
           /\ pc'[t] # "wait"
           /\ \/ Last(t)'.cls = "Elapsed"
              \/ Last(t)'.cls = "Empty" /\ Last(t)'.rcode = "TIMEOUT")
          => /\ metrics'.timeouts = metrics.timeouts + 1
             /\ pool'[chosen[t]].fail = pool[chosen[t]].fail + 1
             /\ pc'[t] = AfterTransient(attempt[t])]_vars

\* C11: with rate 0 the limiter is bypassed: a host task that is about to make an
\* attempt is never held up by the limiter for want of a permit.
C11_RateZeroNeverBlocks ==
    cfg.rate = 0 =>
        \A t \in Tasks :
            (pc[t] = "loop" /\ LoopCond(attempt[t])) => permits > 0

\* C12: an attempt answered NXDomain bumps `nxdomain` by one, leaves the pool as it
\* was (no report_fail) and sends the task past its loop; from then on the task
\* makes no further attempt, for every retry setting.
C12_NXDomainEndsAttempts ==
    [][\A t \in Tasks :
          /\ (pc[t] = "wait" /\ pc'[t] # "wait" /\ Last(t)'.cls = "NXDomain")
             => /\ metrics'.nxdomain = metrics.nxdomain + 1
                /\ pool' = pool
                /\ pc'[t] = "finish"
          /\ Last(t).cls = "NXDomain"
             => /\ attempt'[t] = attempt[t]
                /\ hist'[t] = hist[t]
                /\ pc'[t] \in {"finish", "done"}]_vars

\* C12, reached: under retry = -1 a task that ended after an NXDomain answer, with
\* no failure reported to the pool
C12_Witness ==
    /\ cfg.retry = -1
    /\ \E t \in Tasks :
          /\ pc[t] = "done"
          /\ Last(t).cls = "NXDomain"
          /\ attempt[t] = 1
    /\ metrics.nxdomain = 1
    /\ \A r \in Resolvers : pool[r].fail = 0

\* C13: for every order of report_ok and report_fail calls, an endpoint whose
\* counters have reached total >= 20 with fail / total > 0.8 is disabled once
\* choose_random or counts has been called.
C13_RatioDisabledAtNextQuery ==
    ret.op \in {"choose_random", "counts"} =>
        \A r \in DOMAIN pool :
            LET total == pool[r].ok + pool[r].fail IN
            (total >= 20 /\ pool[r].fail * 10 > total * 8) => pool[r].disabled

\* C14: an endpoint with at least 10 failures and no success since its last
\* reset is disabled: choose_random does not return it and counts does not
\* count it as active.
C14_NoSuccessDisabled ==
    LET failed == {r \in DOMAIN pool : pool[r].ok = 0 /\ pool[r].fail >= 10} IN
    /\ \A r \in failed : pool[r].disabled
    /\ ret.op = "choose_random" => ret.addr \notin failed
    /\ ret.op = "counts" => ret.active <= Cardinality(DOMAIN pool \ failed)

C14_Witness ==
    /\ ret.op = "counts"
    /\ ret.total = 1
    /\ ret.active = 0
    /\ \E r \in DOMAIN pool : pool[r].ok = 0 /\ pool[r].fail = 10

\* C15: a call of choose_random or counts clears the disabled flag and zeroes
\* ok and fail of every disabled endpoint whose cooldown has elapsed; when that
\* is every disabled endpoint, counts returns active = total.
C15_ReenableAfterCooldown ==
    [][(ret'.op \in {"choose_random", "counts"} /\ now' = now) =>
        LET off == {r \in DOMAIN pool : pool[r].disabled}
            due == {r \in off : now - pool[r].disabled_at >= CooldownMin}
        IN  /\ \A r \in due :
                   ~pool'[r].disabled /\ pool'[r].ok = 0 /\ pool'[r].fail = 0
            /\ (ret'.op = "counts" /\ due = off) =>
                   /\ ret'.active = ret'.total
                   /\ ret'.total = Cardinality(DOMAIN pool)]_vars

C15_Witness ==
    /\ ret.op = "counts"
    /\ ret.total = 2
    /\ ret.active = 2
    /\ \E r \in DOMAIN pool :
          pool[r].cb > 0 /\ ~pool[r].disabled /\ pool[r].ok = 0 /\ pool[r].fail = 0

\* C16: the on-disable callback runs exactly once for each transition of an
\* endpoint from enabled to disabled, and never for a failure reported while
\* the endpoint is already disabled.
C16_CallbackOncePerDisable ==
    [][\A r \in DOMAIN pool :
          pool'[r].cb - pool[r].cb =
              IF ~pool[r].disabled /\ pool'[r].disabled THEN 1 ELSE 0]_vars

\* C17: choose_random returns an endpoint that is not disabled, and returns no
\* endpoint only when every endpoint of the pool (if any) is disabled with a
\* cooldown that has not elapsed.
C17_ChooseOnlyActive ==
    [][(ret'.op = "choose_random" /\ now' = now) =>
          /\ ret'.addr # NoResolver =>
                 ret'.addr \in DOMAIN pool /\ ~pool'[ret'.addr].disabled
          /\ ret'.addr = NoResolver =>
                 \A r \in DOMAIN pool :
                     pool[r].disabled /\ now - pool[r].disabled_at < CooldownMin]_vars

C17_Witness ==
    /\ ret.op = "choose_random"
    /\ ret.addr # NoResolver
    /\ ~pool[ret.addr].disabled
    /\ \E r \in DOMAIN pool : pool[r].disabled

\* C18: an attempt of a host task for which choose_random returns no endpoint,
\* in the base pass or in a predictor round, increments `fallback` and asks the
\* OS resolver; a successful OS lookup writes a ScanResult, stores the host as
\* Ok in the StatusDb and appends it to the discovered list.
C18_NoResolverFallsBack ==
    [][\A t \in Tasks :
          /\ (attempt'[t] = attempt[t] + 1 /\ chosen'[t] = NoResolver) =>
                 /\ metrics'.fallback = metrics.fallback + 1
                 /\ pc'[t] = "wait"
          /\ (pc[t] = "wait" /\ chosen[t] = NoResolver /\ pc'[t] # "wait"
                 /\ Last(t)'.cls = "SysOk") =>
                 /\ written'[HostOf(t)].full = written[HostOf(t)].full + 1
                 /\ HostOf(t) \in DOMAIN db'
                 /\ db'[HostOf(t)].state = "Ok"
                 /\ discovered' = Append(discovered, HostOf(t))]_vars

\* C19: after any sequence of completed add, set and del calls, length returns
\* the number of distinct hosts stored: a repeated add or set and a del of an
\* absent host leave it unchanged.
C19_LengthCountsDistinctHosts ==
    /\ dblen = Cardinality(DOMAIN db)
    /\ ret.op = "length" => ret.total = Cardinality(DOMAIN db)

C19_Witness ==
    /\ ret.op = "add"
    /\ ret.active = 1
    /\ dblen = 1
    /\ Cardinality(DOMAIN db) = 1

\* C20 (as stated): in every reachable state, also while add, set, del and the
\* cleanup of the sweeper run concurrently, the value of length equals the sum
\* of the sizes of the shard maps.
C20_LengthIsSumOfShards ==
    dblen = ShardSize(0) + ShardSize(1)

\* C20 (amended): in every reachable state in which no add, set, del or cleanup
\* stands between its update of a shard map and its update of the counter, also
\* while such calls run concurrently, the value of length equals the sum of the
\* sizes of the shard maps.
C20_LengthIsSumOnceCounted ==
    (\A p \in DbProcs : dbop[p].pc # "updated") =>
        dblen = ShardSize(0) + ShardSize(1)

C20_Witness ==
    /\ dbop[0].pc = "sweeping"
    /\ dbop[1].pc = "locked"
    /\ dbop[1].op = "del"
    /\ dbop[2].pc = "idle"
    /\ dblen = 1
    /\ ShardSize(0) + ShardSize(1) = 1

\* C21: at every moment the number of host tasks that are spawned and have not
\* exited is at most `concurrency`, whatever path each task takes to its exit.
C21_RunningWithinConcurrency ==
    Cardinality({t \in Tasks : pc[t] \notin {"unspawned", "done"}}) <= cfg.concurrency

C21_Witness ==
    /\ cfg.concurrency = 1
    /\ Cardinality(Tasks) = 2
    /\ pc[1] = "done"
    /\ Last(1).cls = "NXDomain"
    /\ pc[2] = "wait"
    /\ sem = 0

\* C31: an attempt whose answer has rcode ServFail or Refused never ends as Ok
\* (nor as filtered): it is penalized and goes on to the retry check, also when
\* the answer carries records.
C31_ErrorRcodeNeverOk ==
    \A t \in Tasks : \A i \in 1..Len(hist[t]) :
        hist[t][i].rcode \in {"ServFail", "Refused"} => hist[t][i].cls \in Transient

\* C32: every host that reached state Ok during the run is in the status file
\* saved at finalization, with state Ok.
C32_OkHostsInFinalSnapshot ==
    (phase = "done" /\ cfg.status_file.some) =>
        \A t \in Tasks :
            (\E i \in 1..Len(hist[t]) : hist[t][i].cls = "Ok") =>
                \E p \in saved.items : p.domain = HostOf(t) /\ p.state = "Ok"

\* total of the progress reports: the hosts planned by the base pass and by the
\* predictor rounds
TotalPlanned == Len(Plan) + Len(round_plan)

\* C33: when a run with show_all completes, ok + filtered + failed + skipped
\* equals total.
C33_FinishedEqualsTotal ==
    (phase = "done" /\ show_all) =>
        metrics.ok + metrics.filtered + metrics.failed + metrics.skipped = TotalPlanned

\* C34: a host task of a predictor round is the same state machine as a host
\* task of the base pass: every step from an answer to the retry check that a
\* round task takes with a resolver chosen is a step the base pass's loop body
\* takes on the same answer, with the same counters, StatusDb entry, pool
\* counters and written results.
C34_RoundTaskIsBaseTask ==
    [][\A t \in Tasks :
          (/\ InRound(t)
           /\ pc[t] = "wait"
           /\ pc'[t] # "wait"
           /\ chosen[t] # NoResolver)
          => \E o \in QueryOutcomes(t) : AnswerEffectOf(t, o, FALSE)]_vars

(***************************************************************************)
(* The limiter under the adaptive controller: refill ticks, set_rate calls *)
(* of the controller and the attempts of the host tasks.                   *)
(***************************************************************************)
\* the host task sends d_sent queries one after the other, d_err of which time
\* out: each attempt acquires a permit and gives it back when it ends
LimiterTraffic ==
    /\ permits >= 1
    /\ \E d_sent \in {MinSample - 1, MinSample}, d_err \in {0, ErrThrPct, ErrThrPct + 1} :
          /\ metrics.sent + d_sent <= MaxSamples * MinSample
          /\ metrics' = [metrics EXCEPT !.sent = @ + d_sent, !.timeouts = @ + d_err]
          /\ sentInWindow' = sentInWindow + d_sent
    /\ UNCHANGED <<poolop, db2, bg, dbop, round_plan, ret, cfg, phase, spawned, sem, pc, attempt, success,
                   chosen, hist, permits, rl_rate, db, dblen, pool, written, discovered,
                   writers_closed, saved, now>>
NextLimiter == LimiterTraffic \/ AdaptiveStep \/ RefillTick
SpecLimiter == InitAdaptive /\ [][NextLimiter]_vars

\* C35: after every refill tick the number of available permits is at most the
\* current rate, also when a set_rate call has lowered the rate.
C35_RefillKeepsCapacity ==
    [][RefillTick => permits' <= rl_rate']_vars

\* C36: no ScanResult is written after the writers were closed: the writers are
\* closed only when every host task of the base pass and of the predictor round
\* has completed, and no round task starts before every task of the base pass
\* has completed.
C36_NoWriteAfterClose ==
    /\ [](writers_closed =>
             /\ spawned = Len(Plan) + Len(round_plan)
             /\ \A t \in Tasks : pc[t] = "done")
    /\ [](\A t \in Tasks :
             (InRound(t) /\ pc[t] # "unspawned") =>
                 \A u \in 1..Len(Plan) : pc[u] = "done")
    /\ [][writers_closed => written' = written]_vars
\* the writers are closed after a round whose task wrote a result
C36_Witness ==
    /\ writers_closed
    /\ \E t \in Tasks : InRound(t) /\ \E i \in 1..Len(hist[t]) : hist[t][i].cls = "Ok"

\* C37: every attempt calls report_fail for its chosen resolver at most once: an
\* empty answer whose rcode was penalized is not penalized again, and an empty
\* NoError answer is penalized exactly once.
C37_OnePenaltyPerAttempt ==
    [][\A t \in Tasks :
          (pc[t] = "wait" /\ pc'[t] # "wait" /\ chosen[t] # NoResolver) =>
              LET r == chosen[t]
                  d == pool'[r].fail - pool[r].fail
                  e == hist'[t][Len(hist'[t])]
              IN /\ d <= 1
                 /\ e.cls = "Empty" => d = 1]_vars
\* an attempt got an empty answer with a penalized rcode, another an empty
\* NoError answer
C37_Witness ==
    \E t \in Tasks : \E i, j \in 1..Len(hist[t]) :
        /\ hist[t][i].cls = "Empty" /\ hist[t][i].rcode = "ServFail"
        /\ hist[t][j].cls = "Empty" /\ hist[t][j].rcode = "NoError"

\* C38: disabled_at is stamped only when an endpoint goes from enabled to
\* disabled: a step that leaves an endpoint disabled leaves its disabled_at
\* unchanged, so that the cooldown runs from the instant of the disable.
C38_StampOnlyOnDisable ==
    [][\A r \in DOMAIN pool :
          (pool[r].disabled /\ pool'[r].disabled) =>
              pool'[r].disabled_at = pool[r].disabled_at]_vars

\* no call on the ResolverPool is in progress
PoolQuiescent == poolop.rf.pc = "idle" /\ poolop.sel.pc = "idle"

\* C39: for every interleaving of concurrent report_fail, report_ok,
\* choose_random and counts calls, in every state where no such call is in
\* progress an endpoint with disabled = true has disabled_at set (to an instant
\* that is not in the future), so that a selection or counts call after its
\* cooldown re-enables it.
C39_DisabledHasStamp ==
    PoolQuiescent =>
        \A r \in DOMAIN pool :
            pool[r].disabled => (pool[r].disabled_at >= 0 /\ pool[r].disabled_at <= now)
\* an endpoint is disabled with its counters reset: a report_fail overlapped
\* the re-enabling of the endpoint
C39_Witness ==
    /\ PoolQuiescent
    /\ \E r \in DOMAIN pool :
          pool[r].disabled /\ pool[r].ok = 0 /\ pool[r].fail = 0

\* C40: an adaptive step on a sample of at least 100 queries whose error ratio
\* d_err / d_sent exceeds err_threshold never raises the rate: the rate after
\* the step is at most the rate before it, for every current rate and every
\* configured [adaptive_min_rate, adaptive_max_rate].
C40_ErrorStepNeverRaises ==
    [][metrics' = metrics =>
          LET d_sent == metrics.sent - bg.last_sent
              d_err == ErrNow - bg.last_err
          IN (d_sent >= MinSample /\ d_err * 100 > bg.opt.err_pct * d_sent) =>
                 rl_rate' <= rl_rate]_vars

====
